---- MODULE Spec2Model ----
(***************************************************************************)
(* A model of zerometry: the zero-copy binary encoding of geometries       *)
(* (Zoint, ZultiPoints, Zine, ZultiLines, Zolygon, ZultiPolygons), their   *)
(* bounding boxes, the segment intersection test, the point-in-polygon     *)
(* test and the relations between shapes.                                  *)
(*                                                                         *)
(* Coordinates are integers: on integers |val| < EPSILON holds exactly     *)
(* when val = 0, so orientation() is exact.  An f64 is modelled by its     *)
(* eight native-endian (little-endian) bytes.                              *)
(***************************************************************************)
EXTENDS Integers, Sequences, FiniteSets, TLC

VARIABLES geometry, writer, view, lhs, rhs, relation, output, pc

vars == <<geometry, writer, view, lhs, rhs, relation, output, pc>>

\* ------------------------------------------------------------------ bounds
\* segment endpoints are drawn from (0..SegMax) x (0..SegMax)
SegMax == 2
\* bounding boxes have their corners in (0..BoxMax) x (0..BoxMax)
BoxMax == 3
\* coordinates of a line string, of a multi point or of a polygon exterior
\* before it is closed
MaxPoints == 2
\* members of a multi geometry or of a geometry collection
MaxMembers == 2
\* lines, points or polygons of an operand of the relations of the multi
\* geometries
MaxParts == 2

\* ----------------------------------------------------------------- helpers
None == <<>>

Some(b) == <<b>>

unwrap_or_default(o) == IF o = None THEN FALSE ELSE o[1]

f64_max(a, b) == IF a >= b THEN a ELSE b

f64_min(a, b) == IF a <= b THEN a ELSE b

\* ------------------------------------------------------------------ Coord
COORD_SIZE_IN_BYTES == 16

COORD_SIZE_IN_FLOATS == 2

lng(c) == c[1]

lat(c) == c[2]

\* --------------------------------------------------------------- relation
InputRelation_all ==
    [contains |-> TRUE, strict_contains |-> TRUE, contained |-> TRUE,
     strict_contained |-> TRUE, intersect |-> TRUE, disjoint |-> TRUE,
     early_exit |-> FALSE]

InputRelation_any ==
    [contains |-> TRUE, strict_contains |-> TRUE, contained |-> TRUE,
     strict_contained |-> TRUE, intersect |-> TRUE, disjoint |-> TRUE,
     early_exit |-> TRUE]

swap_contains_relation(r) ==
    [r EXCEPT !.contains = r.contained, !.contained = r.contains,
              !.strict_contains = r.strict_contained,
              !.strict_contained = r.strict_contains]

\* a variant that seeds every flag, requested or not
false_from_input_every_flag(r) ==
    [contains         |-> Some(FALSE),
     strict_contains  |-> Some(FALSE),
     contained        |-> Some(FALSE),
     strict_contained |-> Some(FALSE),
     intersect        |-> Some(FALSE),
     disjoint         |-> Some(FALSE)]

false_from_input(r) ==
    [contains         |-> IF r.contains THEN Some(FALSE) ELSE None,
     strict_contains  |-> IF r.strict_contains THEN Some(FALSE) ELSE None,
     contained        |-> IF r.contained THEN Some(FALSE) ELSE None,
     strict_contained |-> IF r.strict_contained THEN Some(FALSE) ELSE None,
     intersect        |-> IF r.intersect THEN Some(FALSE) ELSE None,
     disjoint         |-> IF r.disjoint THEN Some(FALSE) ELSE None]

true_from_input(r) ==
    [contains         |-> IF r.contains THEN Some(TRUE) ELSE None,
     strict_contains  |-> IF r.strict_contains THEN Some(TRUE) ELSE None,
     contained        |-> IF r.contained THEN Some(TRUE) ELSE None,
     strict_contained |-> IF r.strict_contained THEN Some(TRUE) ELSE None,
     intersect        |-> IF r.intersect THEN Some(TRUE) ELSE None,
     disjoint         |-> IF r.disjoint THEN Some(TRUE) ELSE None]

\* a variant that sets no flag
to_false_default(r) ==
    [contains |-> None, strict_contains |-> None, contained |-> None,
     strict_contained |-> None, intersect |-> None, disjoint |-> None]

to_false(r) == false_from_input(r)

to_true(r) == true_from_input(r)

strip_strict(r) ==
    [r EXCEPT !.strict_contains = FALSE, !.strict_contained = FALSE]

strip_strict_contained(r) == [r EXCEPT !.strict_contained = FALSE]

strip_disjoint(r) == [r EXCEPT !.disjoint = FALSE]

make_contains_if_set(o) ==
    IF o.contains # None THEN [o EXCEPT !.contains = Some(TRUE)] ELSE o

\* a variant that makes the strict flag true and leaves contains alone
make_strict_contains_alone(o) ==
    IF o.strict_contains # None THEN [o EXCEPT !.strict_contains = Some(TRUE)] ELSE o

make_strict_contains_if_set(o) ==
    make_contains_if_set(
        IF o.strict_contains # None
        THEN [o EXCEPT !.strict_contains = Some(TRUE)] ELSE o)

make_contained_if_set(o) ==
    IF o.contained # None THEN [o EXCEPT !.contained = Some(TRUE)] ELSE o

make_strict_contained_if_set(o) ==
    make_contained_if_set(
        IF o.strict_contained # None
        THEN [o EXCEPT !.strict_contained = Some(TRUE)] ELSE o)

make_intersect_if_set(o) ==
    IF o.intersect # None THEN [o EXCEPT !.intersect = Some(TRUE)] ELSE o

\* a variant that leaves the disjoint flag as it is
make_disjoint_never(o) == o

make_disjoint_if_set(o) ==
    IF o.disjoint # None THEN [o EXCEPT !.disjoint = Some(TRUE)] ELSE o

OutputRelation_strip_strict(o) ==
    [o EXCEPT !.strict_contains = None, !.strict_contained = None]

any_relation(o) ==
    /\ ~unwrap_or_default(o.disjoint)
    /\ \/ unwrap_or_default(o.contains)
       \/ unwrap_or_default(o.strict_contains)
       \/ unwrap_or_default(o.contained)
       \/ unwrap_or_default(o.strict_contained)
       \/ unwrap_or_default(o.intersect)

\* a variant that gives the output back without swapping it
OutputRelation_keep_contains_relation(o) == o

OutputRelation_swap_contains_relation(o) ==
    [o EXCEPT !.contains = o.contained, !.contained = o.contains,
              !.strict_contains = o.strict_contained,
              !.strict_contained = o.strict_contains]

\* a variant that takes the flag of the operand over
BitOrFlag_overwrite(a, b) ==
    IF a = None THEN None ELSE Some(unwrap_or_default(b))

BitOrFlag(a, b) ==
    IF a = None THEN None ELSE Some(a[1] \/ unwrap_or_default(b))

\* a variant that forgets what the set flags of self held
bitor_forgetful(self, other) ==
    [contains         |-> BitOrFlag_overwrite(self.contains, other.contains),
     strict_contains  |-> BitOrFlag_overwrite(self.strict_contains, other.strict_contains),
     contained        |-> BitOrFlag_overwrite(self.contained, other.contained),
     strict_contained |-> BitOrFlag_overwrite(self.strict_contained, other.strict_contained),
     intersect        |-> BitOrFlag_overwrite(self.intersect, other.intersect),
     disjoint         |-> BitOrFlag_overwrite(self.disjoint, other.disjoint)]

bitor(self, other) ==
    [contains         |-> BitOrFlag(self.contains, other.contains),
     strict_contains  |-> BitOrFlag(self.strict_contains, other.strict_contains),
     contained        |-> BitOrFlag(self.contained, other.contained),
     strict_contained |-> BitOrFlag(self.strict_contained, other.strict_contained),
     intersect        |-> BitOrFlag(self.intersect, other.intersect),
     disjoint         |-> BitOrFlag(self.disjoint, other.disjoint)]

\* ------------------------------------------------------- bytes and numbers
RECURSIVE Pow2(_)
Pow2(n) == IF n = 0 THEN 1 ELSE 2 * Pow2(n - 1)

RECURSIVE ilog2(_)
ilog2(n) == IF n < 2 THEN 0 ELSE 1 + ilog2(n \div 2)

\* data[from..to] of Rust: 0-based, `to` excluded
slice(data, from, to) == SubSeq(data, from + 1, to)

\* data[from..]
slice_from(data, from) == SubSeq(data, from + 1, Len(data))

\* The IEEE-754 binary64 bytes of an integer v, |v| < 4096, least significant
\* byte first: sign bit, 11 bits of biased exponent, 52 bits of mantissa of
\* which only the 12 most significant can be set.
f64_to_ne_bytes(v) ==
    IF v = 0 THEN <<0, 0, 0, 0, 0, 0, 0, 0>>
    ELSE LET a      == IF v < 0 THEN -v ELSE v
             e      == ilog2(a)
             biased == e + 1023
             m12    == ((a - Pow2(e)) * 4096) \div Pow2(e)
             sign   == IF v < 0 THEN 128 ELSE 0
         IN  <<0, 0, 0, 0, 0,
               m12 % 256,
               (biased % 16) * 16 + (m12 \div 256),
               sign + (biased \div 16)>>

\* The integer an eight byte binary64 pattern stands for (patterns that are
\* no integer below 4096 in magnitude read as 0: the writers never produce
\* them).
f64_from_ne_bytes(b) ==
    LET biased == (b[8] % 128) * 16 + (b[7] \div 16)
        m12    == (b[7] % 16) * 256 + b[6]
        e      == biased - 1023
        a      == Pow2(e) + (m12 * Pow2(e)) \div 4096
    IN  IF biased = 0 \/ e < 0 \/ e > 11 THEN 0
        ELSE IF b[8] >= 128 THEN -a ELSE a

\* n < 2^31
u32_to_ne_bytes(n) ==
    <<n % 256, (n \div 256) % 256, (n \div 65536) % 256, n \div 16777216>>

u32_from_ne_bytes(b) ==
    b[1] + 256 * b[2] + 65536 * b[3] + 16777216 * b[4]

u64_to_ne_bytes(n) == u32_to_ne_bytes(n) \o <<0, 0, 0, 0>>

\* a u64 that does not fit in 31 bits reads as -1: no tag is that large
u64_from_ne_bytes(b) ==
    IF b[4] >= 128 \/ slice(b, 4, 8) # <<0, 0, 0, 0>> THEN -1
    ELSE u32_from_ne_bytes(slice(b, 0, 4))

RECURSIVE repeat_n(_, _)
repeat_n(x, n) == IF n = 0 THEN <<>> ELSE <<x>> \o repeat_n(x, n - 1)

\* writer[at..at + Len(bytes)].copy_from_slice(bytes)
copy_from_slice(w, at, bytes) ==
    [i \in 1..Len(w) |->
        IF i > at /\ i <= at + Len(bytes) THEN bytes[i - at] ELSE w[i]] \o <<>>

\* ----------------------------------------------------------------- Coords
Coord_from_bytes(data) ==
    <<f64_from_ne_bytes(slice(data, 0, 8)), f64_from_ne_bytes(slice(data, 8, 16))>>

Coords_from_bytes(data) ==
    [i \in 1..(Len(data) \div COORD_SIZE_IN_BYTES) |->
        Coord_from_bytes(slice(data, (i - 1) * COORD_SIZE_IN_BYTES,
                               i * COORD_SIZE_IN_BYTES))] \o <<>>

Coords_len(coords) == Len(coords)

Coords_is_empty(coords) == Coords_len(coords) = 0

\* windows(4).step_by(2) over the floats: the pairs of neighbouring coords
consecutive_pairs(coords) ==
    [i \in 1..(IF Len(coords) < 2 THEN 0 ELSE Len(coords) - 1) |->
        <<coords[i], coords[i + 1]>>] \o <<>>

from_slice(pair) == [start |-> pair[1], end |-> pair[2]]

write_coord(w, c) == w \o f64_to_ne_bytes(c[1]) \o f64_to_ne_bytes(c[2])

RECURSIVE write_coords(_, _, _)
write_coords(w, coords, i) ==
    IF i > Len(coords) THEN w
    ELSE write_coords(write_coord(w, coords[i]), coords, i + 1)

RECURSIVE flat_map(_, _)
flat_map(members, i) ==
    IF i > Len(members) THEN <<>> ELSE members[i] \o flat_map(members, i + 1)

\* ---------------------------------------------------------------- Segment
orientation(p, q, r) ==
    LET val == (lat(q) - lat(p)) * (lng(r) - lng(q))
               - (lng(q) - lng(p)) * (lat(r) - lat(q))
    IN  IF val = 0 THEN 0 ELSE IF val > 0 THEN 1 ELSE 2

on_segment(p, q, r) ==
    /\ lng(q) <= f64_max(lng(p), lng(r))
    /\ lng(q) >= f64_min(lng(p), lng(r))
    /\ lat(q) <= f64_max(lat(p), lat(r))
    /\ lat(q) >= f64_min(lat(p), lat(r))

\* a variant that does not look at the directions
intersects_undirected(self, other) ==
    LET p1 == self.start
        q1 == self.end
        p2 == other.start
        q2 == other.end
        o1 == orientation(p1, q1, p2)
        o2 == orientation(p1, q1, q2)
        o3 == orientation(p2, q2, p1)
        o4 == orientation(p2, q2, q1)
    IN  IF o1 # o2 /\ o3 # o4 THEN TRUE
        ELSE IF o1 = 0 /\ on_segment(p1, p2, q1) THEN TRUE
        ELSE IF o2 = 0 /\ on_segment(p1, q2, q1) THEN TRUE
        ELSE IF o3 = 0 /\ on_segment(p2, p1, q2) THEN TRUE
        ELSE IF o4 = 0 /\ on_segment(p2, q1, q2) THEN TRUE
        ELSE FALSE

intersects(self, other) ==
    LET p1 == self.start
        q1 == self.end
        p2 == other.start
        q2 == other.end
        o1 == orientation(p1, q1, p2)
        o2 == orientation(p1, q1, q2)
        o3 == orientation(p2, q2, p1)
        o4 == orientation(p2, q2, q1)
        cross_rs == (lng(q1) - lng(p1)) * (lat(q2) - lat(p2))
                    - (lat(q1) - lat(p1)) * (lng(q2) - lng(p2))
    IN  IF o1 # o2 /\ o3 # o4 THEN cross_rs > 0
        ELSE IF o1 = 0 /\ on_segment(p1, p2, q1) THEN TRUE
        ELSE IF o2 = 0 /\ on_segment(p1, q2, q1) THEN TRUE
        ELSE IF o3 = 0 /\ on_segment(p2, p1, q2) THEN TRUE
        ELSE IF o4 = 0 /\ on_segment(p2, q1, q2) THEN TRUE
        ELSE FALSE

\* ------------------------------------------------------------ BoundingBox
BOUNDING_BOX_SIZE_IN_BYTES == 32

from_coords(coords) == coords

bottom_left(bb) == bb[1]

top_right(bb) == bb[2]

bottom(bb) == lat(bottom_left(bb))

top(bb) == lat(top_right(bb))

left(bb) == lng(bottom_left(bb))

right(bb) == lng(top_right(bb))

horizontal_range(bb) == <<left(bb), right(bb)>>

vertical_range(bb) == <<bottom(bb), top(bb)>>

RangeContains(range, v) == range[1] <= v /\ v <= range[2]

contains_coord(self, coord) ==
    /\ RangeContains(vertical_range(self), lat(coord))
    /\ RangeContains(horizontal_range(self), lng(coord))

BoundingBox_relation_Coord(self, other, r) ==
    IF contains_coord(self, other)
    THEN make_strict_contains_if_set(to_false(r))
    ELSE make_disjoint_if_set(to_false(r))

BoundingBox_relation_touching_disjoint(self, other, r) ==
    LET all_in == /\ bottom(self) < bottom(other) /\ top(other) < top(self)
                  /\ left(self) < left(other) /\ right(other) < right(self)
        apart  == \/ right(self) <= left(other) \/ right(other) <= left(self)
                  \/ top(self) <= bottom(other) \/ top(other) <= bottom(self)
    IN  IF all_in THEN make_strict_contains_if_set(to_false(r))
        ELSE IF apart THEN make_disjoint_if_set(to_false(r))
        ELSE make_intersect_if_set(to_false(r))

BoundingBox_relation_BoundingBox(self, other, r) ==
    LET self_vertical_range    == vertical_range(self)
        self_horizontal_range  == horizontal_range(self)
        other_vertical_range   == vertical_range(other)
        other_horizontal_range == horizontal_range(other)
        first  == <<RangeContains(self_vertical_range, bottom(other)),
                    RangeContains(self_vertical_range, top(other)),
                    RangeContains(self_horizontal_range, left(other)),
                    RangeContains(self_horizontal_range, right(other))>>
        second == <<RangeContains(other_vertical_range, bottom(self)),
                    RangeContains(other_vertical_range, top(self)),
                    RangeContains(other_horizontal_range, left(self)),
                    RangeContains(other_horizontal_range, right(self))>>
    IN  IF first = <<TRUE, TRUE, TRUE, TRUE>>
        THEN make_strict_contains_if_set(to_false(r))
        ELSE IF first = <<FALSE, FALSE, FALSE, FALSE>>
        THEN IF second = <<TRUE, TRUE, TRUE, TRUE>>
             THEN make_strict_contained_if_set(to_false(r))
             ELSE IF second = <<FALSE, FALSE, FALSE, FALSE>>
             THEN make_disjoint_if_set(to_false(r))
             ELSE make_intersect_if_set(to_false(r))
        ELSE make_intersect_if_set(to_false(r))

\* BoundingBox::write_from_geometry: the running extremes over the points
\* after the first one
RECURSIVE BoundingBoxExtremes(_, _, _)
BoundingBoxExtremes(points, i, acc) ==
    IF i > Len(points) THEN acc
    ELSE LET point == points[i]
         IN  BoundingBoxExtremes(points, i + 1,
                [top    |-> IF point[2] > acc.top THEN point[2] ELSE acc.top,
                 bottom |-> IF point[2] < acc.bottom THEN point[2] ELSE acc.bottom,
                 left   |-> IF point[1] < acc.left THEN point[1] ELSE acc.left,
                 right  |-> IF point[1] > acc.right THEN point[1] ELSE acc.right])

BoundingBox_write_no_left(w, points) ==
    LET first_point == IF points = <<>> THEN <<0, 0>> ELSE points[1]
        acc == BoundingBoxExtremes(points, 2,
                  [top |-> first_point[2], bottom |-> first_point[2],
                   left |-> first_point[1], right |-> first_point[1]])
    IN  w \o f64_to_ne_bytes(first_point[1]) \o f64_to_ne_bytes(acc.bottom)
          \o f64_to_ne_bytes(acc.right) \o f64_to_ne_bytes(acc.top)

BoundingBox_write_from_geometry(w, points) ==
    LET first_point == IF points = <<>> THEN <<0, 0>> ELSE points[1]
        acc == BoundingBoxExtremes(points, 2,
                  [top |-> first_point[2], bottom |-> first_point[2],
                   left |-> first_point[1], right |-> first_point[1]])
    IN  w \o f64_to_ne_bytes(acc.left) \o f64_to_ne_bytes(acc.bottom)
          \o f64_to_ne_bytes(acc.right) \o f64_to_ne_bytes(acc.top)

BoundingBox_from_bytes(data) == from_coords(Coords_from_bytes(data))

\* ------------------------------------------------------------------ Zoint
Zoint_from_bytes(data) == [coord |-> Coord_from_bytes(data)]

Zoint_write_from_geometry(w, point) == write_coord(w, point)

\* ------------------------------------------------------------ ZultiPoints
ZultiPoints_from_bytes(data) ==
    [bounding_box |-> BoundingBox_from_bytes(slice(data, 0, COORD_SIZE_IN_BYTES * 2)),
     coords       |-> Coords_from_bytes(slice_from(data, COORD_SIZE_IN_BYTES * 2))]

ZultiPoints_write_from_geometry(w, points) ==
    write_coords(BoundingBox_write_from_geometry(w, points), points, 1)

ZultiPoints_len(self) == Coords_len(self.coords)

ZultiPoints_is_empty(self) == ZultiPoints_len(self) = 0

\* ------------------------------------------------------------------- Zine
Zine_from_bytes(data) ==
    [bounding_box |-> BoundingBox_from_bytes(slice(data, 0, COORD_SIZE_IN_BYTES * 2)),
     coords       |-> Coords_from_bytes(slice_from(data, COORD_SIZE_IN_BYTES * 2))]

Zine_write_from_geometry(w, line) ==
    write_coords(BoundingBox_write_from_geometry(w, line), line, 1)

Zine_len(self) == Coords_len(self.coords)

Zine_is_empty(self) == Zine_len(self) = 0

Zine_segments(self) ==
    LET pairs == consecutive_pairs(self.coords)
    IN  [i \in DOMAIN pairs |-> from_slice(pairs[i])] \o <<>>

\* ---------------------------------------------------------------- Zolygon
Zolygon_from_bytes(data) ==
    [bounding_box |-> BoundingBox_from_bytes(slice(data, 0, COORD_SIZE_IN_BYTES * 2)),
     coords       |-> Coords_from_bytes(slice_from(data, COORD_SIZE_IN_BYTES * 2))]

\* the geometry is the exterior ring of the polygon: interiors are not stored
Zolygon_write_from_geometry(w, exterior) ==
    write_coords(BoundingBox_write_from_geometry(w, exterior), exterior, 1)

Zolygon_segments(self) ==
    LET pairs == consecutive_pairs(self.coords)
    IN  [i \in DOMAIN pairs |-> from_slice(pairs[i])] \o <<>>

Zolygon_is_empty(self) == Coords_len(self.coords) = 0

\* ------------------------------------- offset tables of the multi geometries
RECURSIVE read_offsets(_, _)
read_offsets(data, count) ==
    IF count = 0 THEN <<>>
    ELSE read_offsets(data, count - 1)
           \o <<u32_from_ne_bytes(slice(data, (count - 1) * 4, count * 4))>>

\* a variant that never skips the padding
Multi_from_bytes_no_padding(data) ==
    LET bounding_box  == BoundingBox_from_bytes(slice(data, 0, BOUNDING_BOX_SIZE_IN_BYTES))
        data1         == slice_from(data, BOUNDING_BOX_SIZE_IN_BYTES)
        offsets_count == u32_from_ne_bytes(slice(data1, 0, 4))
        data2         == slice_from(data1, 4)
        size_of_offsets == offsets_count * 4
        offsets       == read_offsets(slice(data2, 0, size_of_offsets), offsets_count)
    IN  [bounding_box |-> bounding_box, offsets |-> offsets,
         bytes |-> slice_from(data2, size_of_offsets)]

\* bounding box, count, offsets, padding when the count is even, members
Multi_from_bytes(data) ==
    LET bounding_box  == BoundingBox_from_bytes(slice(data, 0, BOUNDING_BOX_SIZE_IN_BYTES))
        data1         == slice_from(data, BOUNDING_BOX_SIZE_IN_BYTES)
        offsets_count == u32_from_ne_bytes(slice(data1, 0, 4))
        data2         == slice_from(data1, 4)
        size_of_offsets == offsets_count * 4
        offsets       == read_offsets(slice(data2, 0, size_of_offsets), offsets_count)
        data3         == slice_from(data2, size_of_offsets)
        data4         == IF offsets_count % 2 = 0 THEN slice_from(data3, 4) ELSE data3
    IN  [bounding_box |-> bounding_box, offsets |-> offsets, bytes |-> data4]

\* the member loop: push the offset of the member, then write the member
RECURSIVE write_lines(_, _, _, _)
write_lines(acc, lines, i, start) ==
    IF i > Len(lines) THEN acc
    ELSE write_lines(
            [w       |-> Zine_write_from_geometry(acc.w, lines[i]),
             offsets |-> Append(acc.offsets, Len(acc.w) - start)],
            lines, i + 1, start)

RECURSIVE write_polygons(_, _, _, _)
write_polygons(acc, polygons, i, start) ==
    IF i > Len(polygons) THEN acc
    ELSE write_polygons(
            [w       |-> Zolygon_write_from_geometry(acc.w, polygons[i]),
             offsets |-> Append(acc.offsets, Len(acc.w) - start)],
            polygons, i + 1, start)

RECURSIVE patch_offsets(_, _, _, _)
patch_offsets(w, offsets, i, offsets_addr) ==
    IF i > Len(offsets) THEN w
    ELSE patch_offsets(
            copy_from_slice(w, offsets_addr + (i - 1) * 4, u32_to_ne_bytes(offsets[i])),
            offsets, i + 1, offsets_addr)

member_bytes_to_end(self, index) ==
    slice(self.bytes, self.offsets[index + 1], Len(self.bytes))

\* the slice of the member at index (0-based): from its offset to the next
\* member's offset, or to the end of the bytes for the last member
member_bytes(self, index) ==
    LET offset      == self.offsets[index + 1]
        next_offset == IF index + 2 <= Len(self.offsets)
                       THEN self.offsets[index + 2] ELSE Len(self.bytes)
    IN  slice(self.bytes, offset, next_offset)

\* ------------------------------------------------------------- ZultiLines
ZultiLines_from_bytes(data) == Multi_from_bytes(data)

\* a variant that writes no padding after an even number of offsets
ZultiLines_write_no_padding(w, lines) ==
    LET w1 == BoundingBox_write_from_geometry(w, flat_map(lines, 1))
        w2 == w1 \o u32_to_ne_bytes(Len(lines))
        offsets_addr == Len(w2)
        w3 == w2 \o repeat_n(0, Len(lines) * 4)
        start == Len(w3)
        written == write_lines([w |-> w3, offsets |-> <<>>], lines, 1, start)
    IN  patch_offsets(written.w, written.offsets, 1, offsets_addr)

ZultiLines_write_from_geometry(w, lines) ==
    LET w1 == BoundingBox_write_from_geometry(w, flat_map(lines, 1))
        w2 == w1 \o u32_to_ne_bytes(Len(lines))
        offsets_addr == Len(w2)
        w3 == w2 \o repeat_n(0, Len(lines) * 4)
        w4 == IF Len(lines) % 2 = 0 THEN w3 \o u32_to_ne_bytes(0) ELSE w3
        start == Len(w4)
        written == write_lines([w |-> w4, offsets |-> <<>>], lines, 1, start)
    IN  patch_offsets(written.w, written.offsets, 1, offsets_addr)

ZultiLines_len(self) == Len(self.offsets)

ZultiLines_is_empty(self) == ZultiLines_len(self) = 0

ZultiLines_get(self, index) ==
    IF index >= Len(self.offsets) THEN None
    ELSE Some(Zine_from_bytes(member_bytes(self, index)))

lines(self) ==
    [i \in 1..ZultiLines_len(self) |-> ZultiLines_get(self, i - 1)[1]] \o <<>>

\* ---------------------------------------------------------- ZultiPolygons
ZultiPolygons_from_bytes(data) == Multi_from_bytes(data)

ZultiPolygons_write_from_geometry(w, polygons) ==
    LET w1 == BoundingBox_write_from_geometry(w, flat_map(polygons, 1))
        w2 == w1 \o u32_to_ne_bytes(Len(polygons))
        offsets_addr == Len(w2)
        w3 == w2 \o repeat_n(0, Len(polygons) * 4)
        w4 == IF Len(polygons) % 2 = 0 THEN w3 \o u32_to_ne_bytes(0) ELSE w3
        start == Len(w4)
        written == write_polygons([w |-> w4, offsets |-> <<>>], polygons, 1, start)
    IN  patch_offsets(written.w, written.offsets, 1, offsets_addr)

ZultiPolygons_len(self) == Len(self.offsets)

ZultiPolygons_is_empty(self) == ZultiPolygons_len(self) = 0

ZultiPolygons_get(self, index) ==
    IF index >= Len(self.offsets) THEN None
    ELSE Some(Zolygon_from_bytes(member_bytes(self, index)))

polygons(self) ==
    [i \in 1..ZultiPolygons_len(self) |-> ZultiPolygons_get(self, i - 1)[1]] \o <<>>

\* ------------------------------------------------------------- Zollection
RECURSIVE flatten_geometry_collection(_)
RECURSIVE flatten_members(_, _, _)
\* a variant that leaves out the members of the nested collections
RECURSIVE flatten_members_top_level(_, _, _)
flatten_members_top_level(collections, i, acc) ==
    IF i > Len(collections) THEN acc
    ELSE LET g == collections[i]
         IN  flatten_members_top_level(collections, i + 1,
               CASE g.kind = "Point" ->
                      [acc EXCEPT !.points = Append(@, g.point)]
                 [] g.kind = "MultiPoint" ->
                      [acc EXCEPT !.points = @ \o g.points]
                 [] g.kind = "LineString" ->
                      [acc EXCEPT !.lines = Append(@, g.line)]
                 [] g.kind = "MultiLineString" ->
                      [acc EXCEPT !.lines = @ \o g.lines]
                 [] g.kind = "Polygon" ->
                      [acc EXCEPT !.polygons = Append(@, g.exterior)]
                 [] g.kind = "MultiPolygon" ->
                      [acc EXCEPT !.polygons = @ \o g.polygons]
                 [] g.kind = "GeometryCollection" -> acc)

flatten_members(collections, i, acc) ==
    IF i > Len(collections) THEN acc
    ELSE LET g == collections[i]
         IN  flatten_members(collections, i + 1,
               CASE g.kind = "Point" ->
                      [acc EXCEPT !.points = Append(@, g.point)]
                 [] g.kind = "MultiPoint" ->
                      [acc EXCEPT !.points = @ \o g.points]
                 [] g.kind = "LineString" ->
                      [acc EXCEPT !.lines = Append(@, g.line)]
                 [] g.kind = "MultiLineString" ->
                      [acc EXCEPT !.lines = @ \o g.lines]
                 [] g.kind = "Polygon" ->
                      [acc EXCEPT !.polygons = Append(@, g.exterior)]
                 [] g.kind = "MultiPolygon" ->
                      [acc EXCEPT !.polygons = @ \o g.polygons]
                 [] g.kind = "GeometryCollection" ->
                      LET sub == flatten_geometry_collection(g.geometries)
                      IN  [points   |-> acc.points \o sub.points,
                           lines    |-> acc.lines \o sub.lines,
                           polygons |-> acc.polygons \o sub.polygons])

flatten_geometry_collection(collections) ==
    flatten_members(collections, 1,
                    [points |-> <<>>, lines |-> <<>>, polygons |-> <<>>])

Zollection_from_bytes(data) ==
    LET bounding_box    == BoundingBox_from_bytes(slice(data, 0, BOUNDING_BOX_SIZE_IN_BYTES))
        data1           == slice_from(data, BOUNDING_BOX_SIZE_IN_BYTES)
        lines_offset    == u32_from_ne_bytes(slice(data1, 0, 4))
        data2           == slice_from(data1, 4)
        polygons_offset == u32_from_ne_bytes(slice(data2, 0, 4))
        data3           == slice_from(data2, 4)
    IN  [bounding_box |-> bounding_box,
         points   |-> ZultiPoints_from_bytes(slice(data3, 0, lines_offset)),
         lines    |-> ZultiLines_from_bytes(slice(data3, lines_offset, polygons_offset)),
         polygons |-> ZultiPolygons_from_bytes(slice_from(data3, polygons_offset))]

\* a variant that measures the offsets from the start of the writer
Zollection_write_offsets_from_start(w, geometries) ==
    LET flat == flatten_geometry_collection(geometries)
        w1 == BoundingBox_write_from_geometry(w,
                 flat.points \o flat_map(flat.lines, 1) \o flat_map(flat.polygons, 1))
        offsets_pos == Len(w1)
        w2 == w1 \o u32_to_ne_bytes(0) \o u32_to_ne_bytes(0)
        w3 == ZultiPoints_write_from_geometry(w2, flat.points)
        w4 == copy_from_slice(w3, offsets_pos, u32_to_ne_bytes(Len(w3)))
        w5 == ZultiLines_write_from_geometry(w4, flat.lines)
        w6 == copy_from_slice(w5, offsets_pos + 4, u32_to_ne_bytes(Len(w5)))
    IN  ZultiPolygons_write_from_geometry(w6, flat.polygons)

Zollection_write_from_geometry(w, geometries) ==
    LET flat == flatten_geometry_collection(geometries)
        w1 == BoundingBox_write_from_geometry(w,
                 flat.points \o flat_map(flat.lines, 1) \o flat_map(flat.polygons, 1))
        offsets_pos == Len(w1)
        w2 == w1 \o u32_to_ne_bytes(0) \o u32_to_ne_bytes(0)
        base_pos == Len(w2)
        w3 == ZultiPoints_write_from_geometry(w2, flat.points)
        w4 == copy_from_slice(w3, offsets_pos, u32_to_ne_bytes(Len(w3) - base_pos))
        w5 == ZultiLines_write_from_geometry(w4, flat.lines)
        w6 == copy_from_slice(w5, offsets_pos + 4, u32_to_ne_bytes(Len(w5) - base_pos))
    IN  ZultiPolygons_write_from_geometry(w6, flat.polygons)

Zollection_len(self) ==
    ZultiPoints_len(self.points) + ZultiLines_len(self.lines)
      + ZultiPolygons_len(self.polygons)

Zollection_is_empty(self) == Zollection_len(self) = 0

\* -------------------------------------------------------------- Zerometry
Zerometry_from_bytes(data) ==
    LET tag  == u64_from_ne_bytes(slice(data, 0, 8))
        rest == slice_from(data, 8)
    IN  CASE tag = 0 -> [kind |-> "Point", value |-> Zoint_from_bytes(rest)]
          [] tag = 1 -> [kind |-> "MultiPoints", value |-> ZultiPoints_from_bytes(rest)]
          [] tag = 2 -> [kind |-> "Polygon", value |-> Zolygon_from_bytes(rest)]
          [] tag = 3 -> [kind |-> "MultiPolygon", value |-> ZultiPolygons_from_bytes(rest)]
          [] tag = 4 -> [kind |-> "Line", value |-> Zine_from_bytes(rest)]
          [] tag = 5 -> [kind |-> "MultiLines", value |-> ZultiLines_from_bytes(rest)]
          [] OTHER   -> [kind |-> "Err", value |-> "Invalid zerometry tag"]

\* the arms of the match but GeometryCollection, which is todo!()
Zerometry_write_from_geometry(w, g) ==
    CASE g.kind = "Point" ->
           Zoint_write_from_geometry(w \o u64_to_ne_bytes(0), g.point)
      [] g.kind = "MultiPoint" ->
           ZultiPoints_write_from_geometry(w \o u64_to_ne_bytes(1), g.points)
      [] g.kind = "Polygon" ->
           Zolygon_write_from_geometry(w \o u64_to_ne_bytes(2), g.exterior)
      [] g.kind = "MultiPolygon" ->
           ZultiPolygons_write_from_geometry(w \o u64_to_ne_bytes(3), g.polygons)
      [] g.kind = "LineString" ->
           Zine_write_from_geometry(w \o u64_to_ne_bytes(4), g.line)
      [] g.kind = "MultiLineString" ->
           ZultiLines_write_from_geometry(w \o u64_to_ne_bytes(5), g.lines)

\* --------------------------------------------------- relations of Zolygon
\* the `disjoint` query of the relation trait: only that flag, early exit
disjoint_request ==
    [contains |-> FALSE, strict_contains |-> FALSE, contained |-> FALSE,
     strict_contained |-> FALSE, intersect |-> FALSE, disjoint |-> TRUE,
     early_exit |-> TRUE]

BoundingBox_disjoint(self, other) ==
    unwrap_or_default(
        BoundingBox_relation_BoundingBox(self, other, disjoint_request).disjoint)

from_coord_pair(start, end) == [start |-> start, end |-> end]

RECURSIVE count_intersections(_, _, _)
count_intersections(segments, ray, i) ==
    IF i > Len(segments) THEN 0
    ELSE (IF intersects(segments[i], ray) THEN 1 ELSE 0)
           + count_intersections(segments, ray, i + 1)

Zolygon_relation_Coord(self, other) ==
    IF Zolygon_is_empty(self) THEN "Disjoint"
    ELSE IF ~contains_coord(self.bounding_box, other) THEN "Disjoint"
    ELSE LET end   == other
             start == <<left(self.bounding_box), lat(end)>>
             ray   == from_coord_pair(start, end)
             intersections == count_intersections(Zolygon_segments(self), ray, 1)
         IN  IF intersections % 2 = 0 THEN "Disjoint" ELSE "Contains"

any_segments_intersect(a, b) ==
    \E i \in 1..Len(a) : \E j \in 1..Len(b) : intersects(a[i], b[j])

Zolygon_relation_Zolygon(self, other) ==
    IF Zolygon_is_empty(self) \/ Zolygon_is_empty(other) THEN "Disjoint"
    ELSE IF BoundingBox_disjoint(self.bounding_box, other.bounding_box)
    THEN "Disjoint"
    ELSE IF any_segments_intersect(Zolygon_segments(self), Zolygon_segments(other))
    THEN "Intersects"
    ELSE IF Zolygon_relation_Coord(other, self.coords[1]) = "Contains"
    THEN "Contained"
    ELSE IF Zolygon_relation_Coord(self, other.coords[1]) = "Contains"
    THEN "Contains"
    ELSE "Disjoint"

\* The relations of Zolygon above answer with one of Contains, Contained,
\* Intersects and Disjoint; the multi geometries ask a polygon for the flags
\* of a request.  The answer is turned into flags the way BoundingBox does
\* it: the matching flag of the request is made true, with its strict flag.
Relation_into_output(answer, r) ==
    CASE answer = "Contains"   -> make_strict_contains_if_set(to_false(r))
      [] answer = "Contained"  -> make_strict_contained_if_set(to_false(r))
      [] answer = "Intersects" -> make_intersect_if_set(to_false(r))
      [] answer = "Disjoint"   -> make_disjoint_if_set(to_false(r))

Zolygon_relation_Coord_flags(self, other, r) ==
    Relation_into_output(Zolygon_relation_Coord(self, other), r)

Zolygon_relation_Zolygon_flags(self, other, r) ==
    Relation_into_output(Zolygon_relation_Zolygon(self, other), r)

\* the `contains` query of the relation trait: only that flag, early exit
contains_request ==
    [contains |-> TRUE, strict_contains |-> FALSE, contained |-> FALSE,
     strict_contained |-> FALSE, intersect |-> FALSE, disjoint |-> FALSE,
     early_exit |-> TRUE]

Zolygon_contains_Coord(self, other) ==
    unwrap_or_default(
        Zolygon_relation_Coord_flags(self, other, contains_request).contains)

\* ------------------------------------------------------ relations of Zine
Zine_relation_Zolygon(self, other, r) ==
    IF \/ Zine_is_empty(self) \/ Zolygon_is_empty(other)
       \/ BoundingBox_disjoint(self.bounding_box, other.bounding_box)
    THEN make_disjoint_if_set(to_false(r))
    ELSE IF any_segments_intersect(Zine_segments(self), Zolygon_segments(other))
    THEN make_intersect_if_set(to_false(r))
    ELSE IF Zolygon_contains_Coord(other, self.coords[1])
    THEN make_strict_contained_if_set(to_false(r))
    ELSE make_disjoint_if_set(to_false(r))

\* ------------------------------------------------ relations of ZultiLines
\* The loops carry the output, the counters, and whether they returned
\* early.  One turn of a loop is an operator from the carried record to the
\* next one; the record of a turn is bound once, by the quantifier of a set
\* of one element, before the next turn reads it.
Count(flag) == IF unwrap_or_default(flag) THEN 1 ELSE 0

\* the last statement of the relations: the output if it holds any relation
\* a variant that makes the output disjoint whatever it holds
or_disjoint_always(out) == make_disjoint_if_set(out)

or_disjoint(out) == IF any_relation(out) THEN out ELSE make_disjoint_if_set(out)

ZultiLines_turn(acc, one, r) ==
    [output    |-> bitor(acc.output, one),
     contained |-> acc.contained + Count(one.contained),
     returned  |-> any_relation(bitor(acc.output, one)) /\ r.early_exit]

RECURSIVE ZultiLines_Zolygon_loop(_, _, _, _, _)
ZultiLines_Zolygon_loop(ls, other, r, i, acc) ==
    IF i > Len(ls) \/ acc.returned THEN acc
    ELSE CHOOSE end \in
            {ZultiLines_Zolygon_loop(ls, other, r, i + 1, next) :
                next \in {ZultiLines_turn(acc, one, r) :
                    one \in {Zine_relation_Zolygon(ls[i], other,
                                strip_disjoint(strip_strict(r)))}}} : TRUE

ZultiLines_relation_Zolygon(self, other, r) ==
    IF \/ ZultiLines_is_empty(self) \/ Zolygon_is_empty(other)
       \/ BoundingBox_disjoint(self.bounding_box, other.bounding_box)
    THEN make_disjoint_if_set(to_false(r))
    ELSE CHOOSE result \in
            {IF acc.returned THEN acc.output
             ELSE or_disjoint(IF acc.contained = ZultiLines_len(self)
                              THEN make_strict_contains_if_set(acc.output)
                              ELSE acc.output) :
                acc \in {ZultiLines_Zolygon_loop(ls, other, r, 1,
                            [output |-> to_false(r), contained |-> 0,
                             returned |-> FALSE]) : ls \in {lines(self)}}} : TRUE

\* k counts the (line, polygon) pairs already visited, lines outermost
RECURSIVE ZultiLines_ZultiPolygons_loop(_, _, _, _, _)
ZultiLines_ZultiPolygons_loop(ls, ps, r, k, acc) ==
    IF k >= Len(ls) * Len(ps) \/ acc.returned THEN acc
    ELSE CHOOSE end \in
            {ZultiLines_ZultiPolygons_loop(ls, ps, r, k + 1, next) :
                next \in {ZultiLines_turn(acc, one, r) :
                    one \in {Zine_relation_Zolygon(ls[(k \div Len(ps)) + 1],
                                ps[(k % Len(ps)) + 1],
                                strip_disjoint(strip_strict(r)))}}} : TRUE

ZultiLines_relation_ZultiPolygons(self, other, r) ==
    IF \/ ZultiLines_is_empty(self) \/ ZultiPolygons_is_empty(other)
       \/ BoundingBox_disjoint(self.bounding_box, other.bounding_box)
    THEN make_disjoint_if_set(to_false(r))
    ELSE CHOOSE result \in
            {IF acc.returned THEN acc.output
             ELSE or_disjoint(IF acc.contained = ZultiLines_len(self)
                              THEN make_strict_contained_if_set(acc.output)
                              ELSE acc.output) :
                acc \in {ZultiLines_ZultiPolygons_loop(ls, ps, r, 0,
                            [output |-> to_false(r), contained |-> 0,
                             returned |-> FALSE]) :
                         ls \in {lines(self)}, ps \in {polygons(other)}}} : TRUE

\* --------------------------------------------- relations of ZultiPolygons
ZultiPolygons_ZultiPoints_turn(acc, inside, r) ==
    IF inside
    THEN [output   |-> make_contains_if_set(acc.output),
          contains |-> acc.contains + 1,
          returned |-> ~r.strict_contains \/ r.early_exit]
    ELSE acc

\* k counts the (polygon, point) pairs already visited, polygons outermost
RECURSIVE ZultiPolygons_ZultiPoints_loop(_, _, _, _, _)
ZultiPolygons_ZultiPoints_loop(ps, coords, r, k, acc) ==
    IF k >= Len(ps) * Len(coords) \/ acc.returned THEN acc
    ELSE CHOOSE end \in
            {ZultiPolygons_ZultiPoints_loop(ps, coords, r, k + 1, next) :
                next \in {ZultiPolygons_ZultiPoints_turn(acc, inside, r) :
                    inside \in {Zolygon_contains_Coord(
                                   ps[(k \div Len(coords)) + 1],
                                   coords[(k % Len(coords)) + 1])}}} : TRUE

ZultiPolygons_relation_ZultiPoints(self, other, r) ==
    IF \/ ZultiPolygons_is_empty(self) \/ ZultiPoints_is_empty(other)
       \/ BoundingBox_disjoint(self.bounding_box, other.bounding_box)
    THEN make_disjoint_if_set(to_false(r))
    ELSE CHOOSE result \in
            {IF acc.returned THEN acc.output
             ELSE IF acc.contains = ZultiPoints_len(other)
             THEN make_strict_contains_if_set(acc.output)
             ELSE or_disjoint(acc.output) :
                acc \in {ZultiPolygons_ZultiPoints_loop(ps, other.coords, r, 0,
                            [output |-> to_false(r), contains |-> 0,
                             returned |-> FALSE]) : ps \in {polygons(self)}}} : TRUE

ZultiPolygons_ZultiPolygons_turn(acc, one, r) ==
    [output    |-> bitor(acc.output, one),
     contains  |-> acc.contains + Count(one.contains),
     contained |-> acc.contained + Count(one.contained),
     returned  |-> any_relation(bitor(acc.output, one)) /\ r.early_exit]

\* k counts the (left, right) pairs already visited, left outermost
RECURSIVE ZultiPolygons_ZultiPolygons_loop(_, _, _, _, _)
ZultiPolygons_ZultiPolygons_loop(ls, rs, r, k, acc) ==
    IF k >= Len(ls) * Len(rs) \/ acc.returned THEN acc
    ELSE CHOOSE end \in
            {ZultiPolygons_ZultiPolygons_loop(ls, rs, r, k + 1, next) :
                next \in {ZultiPolygons_ZultiPolygons_turn(acc, one, r) :
                    one \in {Zolygon_relation_Zolygon_flags(
                                ls[(k \div Len(rs)) + 1], rs[(k % Len(rs)) + 1],
                                strip_disjoint(strip_strict(r)))}}} : TRUE

\* after the loops: strict_contains, then strict_contained, then disjoint
ZultiPolygons_ZultiPolygons_end(acc, self_len, other_len) ==
    LET out == IF acc.contains = other_len
               THEN make_strict_contains_if_set(acc.output) ELSE acc.output
    IN  IF acc.returned THEN acc.output
        ELSE or_disjoint(IF acc.contained = self_len
                         THEN make_strict_contained_if_set(out) ELSE out)

ZultiPolygons_relation_ZultiPolygons(self, other, r) ==
    IF \/ ZultiPolygons_is_empty(self) \/ ZultiPolygons_is_empty(other)
       \/ BoundingBox_disjoint(self.bounding_box, other.bounding_box)
    THEN make_disjoint_if_set(to_false(r))
    ELSE CHOOSE result \in
            {ZultiPolygons_ZultiPolygons_end(acc, ZultiPolygons_len(self),
                                             ZultiPolygons_len(other)) :
                acc \in {ZultiPolygons_ZultiPolygons_loop(ls, rs, r, 0,
                            [output |-> to_false(r), contains |-> 0,
                             contained |-> 0, returned |-> FALSE]) :
                         ls \in {polygons(self)}, rs \in {polygons(other)}}} : TRUE

\* ------------------------------------- the queries of the relation trait
InputRelation_default ==
    [contains |-> FALSE, strict_contains |-> FALSE, contained |-> FALSE,
     strict_contained |-> FALSE, intersect |-> FALSE, disjoint |-> FALSE,
     early_exit |-> FALSE]

\* InputRelation { <flag>: true, early_exit: true, ..Default::default() }
query(flag) ==
    [[InputRelation_default EXCEPT ![flag] = TRUE] EXCEPT !.early_exit = TRUE]

\* the old API of Zolygon asked through the trait of the new one
Zolygon_strict_contains_Coord(self, other) ==
    unwrap_or_default(
        Zolygon_relation_Coord_flags(self, other,
                                     query("strict_contains")).strict_contains)

\* ------------------------------------------------ relations of Zolygon
RECURSIVE Zolygon_ZultiPoints_loop(_, _, _)
Zolygon_ZultiPoints_loop(self, coords, i) ==
    IF i > Len(coords) THEN "Disjoint"
    ELSE IF Zolygon_relation_Coord(self, coords[i]) = "Contains" THEN "Contains"
    ELSE Zolygon_ZultiPoints_loop(self, coords, i + 1)

Zolygon_relation_ZultiPoints(self, other) ==
    IF BoundingBox_disjoint(self.bounding_box, other.bounding_box)
    THEN "Disjoint"
    ELSE Zolygon_ZultiPoints_loop(self, other.coords, 1)

\* -------------------------------------------- relations of ZultiPoints
ZultiPoints_relation_Zolygon(self, other) ==
    LET r == Zolygon_relation_ZultiPoints(other, self)
    IN  CASE r = "Contains"  -> "Contained"
          [] r = "Contained" -> "Contains"
          [] OTHER           -> r

\* --------------------------------------------------- relations of Zine
Zine_relation_Zine(self, other, r) ==
    IF \/ Zine_is_empty(self) \/ Zine_is_empty(other)
       \/ BoundingBox_disjoint(self.bounding_box, other.bounding_box)
    THEN make_disjoint_if_set(to_false(r))
    ELSE IF any_segments_intersect(Zine_segments(self), Zine_segments(other))
    THEN make_intersect_if_set(to_false(r))
    ELSE make_disjoint_if_set(to_false(r))

Zine_intersects_Zine(self, other) ==
    unwrap_or_default(Zine_relation_Zine(self, other, query("intersect")).intersect)

Zine_ZultiPolygons_turn(acc, one, r) ==
    [output   |-> bitor(acc.output, one),
     returned |-> any_relation(bitor(acc.output, one)) /\ r.early_exit]

RECURSIVE Zine_ZultiPolygons_loop(_, _, _, _, _)
Zine_ZultiPolygons_loop(self, ps, r, i, acc) ==
    IF i > Len(ps) \/ acc.returned THEN acc
    ELSE CHOOSE end \in
            {Zine_ZultiPolygons_loop(self, ps, r, i + 1, next) :
                next \in {Zine_ZultiPolygons_turn(acc, one, r) :
                    one \in {Zine_relation_Zolygon(self, ps[i],
                                strip_disjoint(r))}}} : TRUE

Zine_relation_ZultiPolygons(self, other, r) ==
    IF \/ Zine_is_empty(self) \/ ZultiPolygons_is_empty(other)
       \/ BoundingBox_disjoint(self.bounding_box, other.bounding_box)
    THEN make_disjoint_if_set(to_false(r))
    ELSE CHOOSE result \in
            {IF acc.returned THEN acc.output ELSE or_disjoint(acc.output) :
                acc \in {Zine_ZultiPolygons_loop(self, ps, r, 1,
                            [output |-> to_false(r), returned |-> FALSE]) :
                         ps \in {polygons(other)}}} : TRUE

\* ------------------------------------------ more relations of ZultiLines
ZultiLines_relation_Zine(self, other, r) ==
    IF \/ ZultiLines_is_empty(self) \/ Zine_is_empty(other)
       \/ BoundingBox_disjoint(self.bounding_box, other.bounding_box)
    THEN make_disjoint_if_set(to_false(r))
    ELSE IF \E ls \in {lines(self)} : \E i \in 1..Len(ls) :
                Zine_intersects_Zine(ls[i], other)
    THEN make_intersect_if_set(to_false(r))
    ELSE make_disjoint_if_set(to_false(r))

ZultiLines_relation_ZultiLines(self, other, r) ==
    IF \/ ZultiLines_is_empty(self) \/ ZultiLines_is_empty(other)
       \/ BoundingBox_disjoint(self.bounding_box, other.bounding_box)
    THEN make_disjoint_if_set(to_false(r))
    ELSE IF \E ls \in {lines(self)} : \E rs \in {lines(other)} :
               \E i \in 1..Len(ls) : \E j \in 1..Len(rs) :
                   Zine_intersects_Zine(ls[i], rs[j])
    THEN make_intersect_if_set(to_false(r))
    ELSE make_disjoint_if_set(to_false(r))

\* --------------------------------------- more relations of ZultiPolygons
ZultiPolygons_relation_Zoint(self, other, r) ==
    IF ZultiPolygons_is_empty(self) \/ ~contains_coord(self.bounding_box, other.coord)
    THEN make_disjoint_if_set(to_false(r))
    ELSE IF \E ps \in {polygons(self)} : \E i \in 1..Len(ps) :
                Zolygon_strict_contains_Coord(ps[i], other.coord)
    THEN make_strict_contains_if_set(to_false(r))
    ELSE make_disjoint_if_set(to_false(r))

ZultiPolygons_Zolygon_turn(acc, one, r) ==
    [output    |-> bitor(acc.output, one),
     contained |-> acc.contained + Count(one.contained),
     returned  |-> any_relation(bitor(acc.output, one)) /\ r.early_exit]

RECURSIVE ZultiPolygons_Zolygon_loop(_, _, _, _, _)
ZultiPolygons_Zolygon_loop(ps, other, r, i, acc) ==
    IF i > Len(ps) \/ acc.returned THEN acc
    ELSE CHOOSE end \in
            {ZultiPolygons_Zolygon_loop(ps, other, r, i + 1, next) :
                next \in {ZultiPolygons_Zolygon_turn(acc, one, r) :
                    one \in {Zolygon_relation_Zolygon_flags(ps[i], other,
                                strip_strict_contained(strip_disjoint(r)))}}} : TRUE

ZultiPolygons_relation_Zolygon(self, other, r) ==
    IF \/ ZultiPolygons_is_empty(self) \/ Zolygon_is_empty(other)
       \/ BoundingBox_disjoint(self.bounding_box, other.bounding_box)
    THEN make_disjoint_if_set(to_false(r))
    ELSE CHOOSE result \in
            {IF acc.returned THEN acc.output
             ELSE or_disjoint(IF acc.contained = ZultiPolygons_len(self)
                              THEN make_strict_contained_if_set(acc.output)
                              ELSE acc.output) :
                acc \in {ZultiPolygons_Zolygon_loop(ps, other, r, 1,
                            [output |-> to_false(r), contained |-> 0,
                             returned |-> FALSE]) : ps \in {polygons(self)}}} : TRUE

\* ------------------------------------ the relation of each first operand
\* A shape is a record of its kind and its view.  Each operator below is
\* the family of `impl RelationBetweenShapes<Other> for Self` of one Self,
\* one arm for each Other that has an implementation.
Zoint_relation(self, other, r) ==
    CASE other.kind \in {"Point", "MultiPoints", "Line", "MultiLines"} ->
            make_disjoint_if_set(to_false(r))
      [] other.kind = "Polygon" ->
            IF Zolygon_strict_contains_Coord(other.value, self.coord)
            THEN make_strict_contained_if_set(to_false(r))
            ELSE make_disjoint_if_set(to_false(r))
      [] other.kind = "MultiPolygons" ->
            OutputRelation_swap_contains_relation(
                ZultiPolygons_relation_Zoint(other.value, self,
                                                 swap_contains_relation(r)))

ZultiPoints_relation(self, other) ==
    CASE other.kind \in {"Point", "MultiPoints"} -> "Disjoint"
      [] other.kind = "Polygon" -> ZultiPoints_relation_Zolygon(self, other.value)

Zine_relation(self, other, r) ==
    CASE other.kind \in {"Point", "MultiPoints"} ->
            make_disjoint_if_set(to_false(r))
      [] other.kind = "Line" -> Zine_relation_Zine(self, other.value, r)
      [] other.kind = "MultiLines" -> ZultiLines_relation_Zine(other.value, self, r)
      [] other.kind = "Polygon" -> Zine_relation_Zolygon(self, other.value, r)
      [] other.kind = "MultiPolygons" ->
            Zine_relation_ZultiPolygons(self, other.value, r)

ZultiLines_relation(self, other, r) ==
    CASE other.kind \in {"Point", "MultiPoints"} ->
            make_disjoint_if_set(to_false(r))
      [] other.kind = "Line" -> ZultiLines_relation_Zine(self, other.value, r)
      [] other.kind = "MultiLines" ->
            ZultiLines_relation_ZultiLines(self, other.value, r)
      [] other.kind = "Polygon" -> ZultiLines_relation_Zolygon(self, other.value, r)
      [] other.kind = "MultiPolygons" ->
            ZultiLines_relation_ZultiPolygons(self, other.value, r)

Zolygon_relation(self, other) ==
    CASE other.kind = "Point" -> Zolygon_relation_Coord(self, other.value.coord)
      [] other.kind = "MultiPoints" -> Zolygon_relation_ZultiPoints(self, other.value)
      [] other.kind = "Polygon" -> Zolygon_relation_Zolygon(self, other.value)

ZultiPolygons_relation(self, other, r) ==
    CASE other.kind = "Point" -> ZultiPolygons_relation_Zoint(self, other.value, r)
      [] other.kind = "MultiPoints" ->
            ZultiPolygons_relation_ZultiPoints(self, other.value, r)
      [] other.kind = "Line" ->
            OutputRelation_swap_contains_relation(
                Zine_relation_ZultiPolygons(other.value, self,
                                                swap_contains_relation(r)))
      [] other.kind = "MultiLines" ->
            OutputRelation_swap_contains_relation(
                ZultiLines_relation_ZultiPolygons(other.value, self,
                                                      swap_contains_relation(r)))
      [] other.kind = "Polygon" -> ZultiPolygons_relation_Zolygon(self, other.value, r)
      [] other.kind = "MultiPolygons" ->
            ZultiPolygons_relation_ZultiPolygons(self, other.value, r)

\* the second operands a first operand has an implementation for
Implemented(kind) ==
    CASE kind \in {"Point", "Line", "MultiLines", "MultiPolygons"} ->
            {"Point", "MultiPoints", "Line", "MultiLines", "Polygon", "MultiPolygons"}
      [] kind = "MultiPoints" -> {"Point", "MultiPoints", "Polygon"}
      [] kind = "Polygon" -> {"Point", "MultiPoints", "Polygon"}

\* relation() of the trait, resolved on the types of the two operands
relation_of(a, b, r) ==
    CASE a.kind = "Point" -> Zoint_relation(a.value, b, r)
      [] a.kind = "MultiPoints" ->
            Relation_into_output(ZultiPoints_relation(a.value, b), r)
      [] a.kind = "Line" -> Zine_relation(a.value, b, r)
      [] a.kind = "MultiLines" -> ZultiLines_relation(a.value, b, r)
      [] a.kind = "Polygon" -> Relation_into_output(Zolygon_relation(a.value, b), r)
      [] a.kind = "MultiPolygons" -> ZultiPolygons_relation(a.value, b, r)

\* ------------------------------------------------- reading an OutputRelation
IsContains(o) == o.strict_contains = Some(TRUE)

IsContained(o) == o.strict_contained = Some(TRUE)

IsIntersects(o) == o.intersect = Some(TRUE)

IsDisjoint(o) == o.disjoint = Some(TRUE)

\* ======================================================= codec specification
\* the coordinates the input geometries are built from
CodecCoords == {<<1, -2>>, <<-3, 4>>}

SeqsUpTo(S, n) == UNION {[1..k -> S] : k \in 0..n}

\* geo_types closes the exterior ring of a polygon when it is built
Polygon_new(exterior) ==
    IF exterior = <<>> \/ exterior[1] = exterior[Len(exterior)] THEN exterior
    ELSE Append(exterior, exterior[1])

CoordSeqs == SeqsUpTo(CodecCoords, MaxPoints)

Rings == {Polygon_new(exterior) : exterior \in CoordSeqs}

Points == [kind : {"Point"}, point : CodecCoords]

LineStrings == [kind : {"LineString"}, line : CoordSeqs]

Polygons == [kind : {"Polygon"}, exterior : Rings]

SimpleGeometries ==
    Points \cup LineStrings \cup Polygons
      \cup [kind : {"MultiPoint"}, points : CoordSeqs]

MultiGeometries ==
    [kind : {"MultiLineString"}, lines : SeqsUpTo(CoordSeqs, MaxMembers)]
      \cup [kind : {"MultiPolygon"}, polygons : SeqsUpTo(Rings, MaxMembers)]

\* members that are themselves made of members, down to three levels
DeepMembers ==
    {[kind |-> "MultiPoint", points |-> <<<<1, -2>>, <<-3, 4>>>>],
     [kind |-> "MultiLineString", lines |-> <<<<<<1, -2>>, <<-3, 4>>>>, <<>>>>],
     [kind |-> "MultiPolygon", polygons |-> <<Polygon_new(<<<<1, -2>>, <<-3, 4>>>>)>>],
     [kind |-> "GeometryCollection",
      geometries |->
        <<[kind |-> "LineString", line |-> <<<<-3, 4>>>>],
          [kind |-> "GeometryCollection",
           geometries |->
             <<[kind |-> "Point", point |-> <<1, -2>>],
               [kind |-> "Polygon", exterior |-> <<<<-3, 4>>, <<-3, 4>>>>]>>]>>]}

CollectionMembers ==
    Points \cup LineStrings \cup Polygons \cup DeepMembers
      \cup [kind : {"GeometryCollection"}, geometries : SeqsUpTo(Points, 1)]

GeometryCollections ==
    [kind : {"GeometryCollection"},
     geometries : SeqsUpTo(CollectionMembers, MaxMembers)]

Geometries == SimpleGeometries \cup MultiGeometries \cup GeometryCollections

Init ==
    /\ geometry \in Geometries
    /\ writer = <<>>
    /\ view = None
    /\ lhs = None
    /\ rhs = None
    /\ relation = None
    /\ output = None
    /\ pc = "input"

ZerometryWriteFromGeometry ==
    /\ pc = "input"
    /\ geometry.kind # "GeometryCollection"
    /\ writer' = Zerometry_write_from_geometry(writer, geometry)
    /\ pc' = "written"
    /\ UNCHANGED <<geometry, view, lhs, rhs, relation, output>>

\* Geometry::GeometryCollection(_) => todo!()
ZerometryWriteFromGeometryTodo ==
    /\ pc = "input"
    /\ geometry.kind = "GeometryCollection"
    /\ pc' = "panic"
    /\ UNCHANGED <<geometry, writer, view, lhs, rhs, relation, output>>

ZerometryFromBytes ==
    /\ pc = "written"
    /\ geometry.kind # "GeometryCollection"
    /\ view' = Zerometry_from_bytes(writer)
    /\ pc' = "decoded"
    /\ UNCHANGED <<geometry, writer, lhs, rhs, relation, output>>

ZollectionWriteFromGeometry ==
    /\ pc = "input"
    /\ geometry.kind = "GeometryCollection"
    /\ writer' = Zollection_write_from_geometry(writer, geometry.geometries)
    /\ pc' = "written"
    /\ UNCHANGED <<geometry, view, lhs, rhs, relation, output>>

ZollectionFromBytes ==
    /\ pc = "written"
    /\ geometry.kind = "GeometryCollection"
    /\ view' = [kind |-> "Collection", value |-> Zollection_from_bytes(writer)]
    /\ pc' = "decoded"
    /\ UNCHANGED <<geometry, writer, lhs, rhs, relation, output>>

Next ==
    \/ ZerometryWriteFromGeometry
    \/ ZerometryWriteFromGeometryTodo
    \/ ZerometryFromBytes
    \/ ZollectionWriteFromGeometry
    \/ ZollectionFromBytes

Spec == Init /\ [][Next]_vars

\* ===================================================== segment specification
SegCoords == (0..SegMax) \X (0..SegMax)

Segments == [start : SegCoords, end : SegCoords]

InitSeg ==
    /\ geometry = None
    /\ writer = None
    /\ view = None
    /\ lhs \in Segments
    /\ rhs \in Segments
    /\ relation = None
    /\ output = None
    /\ pc = "ready"

SegmentIntersects ==
    /\ pc = "ready"
    /\ output' = intersects(lhs, rhs)
    /\ pc' = "done"
    /\ UNCHANGED <<geometry, writer, view, lhs, rhs, relation>>

NextSeg == SegmentIntersects

SpecSeg == InitSeg /\ [][NextSeg]_vars

\* ================================================ bounding box specification
BoxCoords == (0..BoxMax) \X (0..BoxMax)

Boxes ==
    {from_coords(<<bl, tr>>) : bl \in BoxCoords, tr \in BoxCoords}

ValidBoxes == {bb \in Boxes : left(bb) <= right(bb) /\ bottom(bb) <= top(bb)}

InitBox ==
    /\ geometry = None
    /\ writer = None
    /\ view = None
    /\ lhs \in [kind : {"BoundingBox"}, bb : ValidBoxes]
    /\ rhs \in [kind : {"BoundingBox"}, bb : ValidBoxes]
              \cup [kind : {"Coord"}, coord : BoxCoords]
    /\ relation = InputRelation_all
    /\ output = None
    /\ pc = "ready"

BoundingBoxRelationBoundingBox ==
    /\ pc = "ready"
    /\ rhs.kind = "BoundingBox"
    /\ output' = BoundingBox_relation_BoundingBox(lhs.bb, rhs.bb, relation)
    /\ pc' = "done"
    /\ UNCHANGED <<geometry, writer, view, lhs, rhs, relation>>

BoundingBoxRelationCoord ==
    /\ pc = "ready"
    /\ rhs.kind = "Coord"
    /\ output' = BoundingBox_relation_Coord(lhs.bb, rhs.coord, relation)
    /\ pc' = "done"
    /\ UNCHANGED <<geometry, writer, view, lhs, rhs, relation>>

NextBox == BoundingBoxRelationBoundingBox \/ BoundingBoxRelationCoord

SpecBox == InitBox /\ [][NextBox]_vars

\* ============================================ point in polygon specification
\* the classical undirected test: the two closed segments share a point
SegmentsMeet(s, t) ==
    LET o1 == orientation(s.start, s.end, t.start)
        o2 == orientation(s.start, s.end, t.end)
        o3 == orientation(t.start, t.end, s.start)
        o4 == orientation(t.start, t.end, s.end)
    IN  \/ o1 # o2 /\ o3 # o4
        \/ o1 = 0 /\ on_segment(s.start, t.start, s.end)
        \/ o2 = 0 /\ on_segment(s.start, t.end, s.end)
        \/ o3 = 0 /\ on_segment(t.start, s.start, t.end)
        \/ o4 = 0 /\ on_segment(t.start, s.end, t.end)

RECURSIVE TwiceArea(_, _)
TwiceArea(ring, i) ==
    IF i >= Len(ring) THEN 0
    ELSE ring[i][1] * ring[i + 1][2] - ring[i + 1][1] * ring[i][2]
           + TwiceArea(ring, i + 1)

\* a closed ring with at least three different vertices that encloses an
\* area and whose edges only meet at the vertex shared by two neighbours
SimpleRing(ring) ==
    LET n    == Len(ring) - 1
        edge(i) == from_coord_pair(ring[i], ring[i + 1])
        succ(i) == IF i = n THEN 1 ELSE i + 1
    IN  /\ n >= 3
        /\ ring[1] = ring[n + 1]
        /\ \A i, j \in 1..n : i # j => ring[i] # ring[j]
        /\ TwiceArea(ring, 1) # 0
        /\ \A i \in 1..n :
              LET a == ring[i]
                  b == ring[succ(i)]
                  c == ring[succ(succ(i))]
              IN  ~(orientation(a, b, c) = 0
                    /\ (on_segment(a, c, b) \/ on_segment(b, a, c)))
        /\ \A i, j \in 1..n :
              (i < j /\ succ(i) # j /\ succ(j) # i) => ~SegmentsMeet(edge(i), edge(j))

RingsOn(coords, n) ==
    {Polygon_new(exterior) : exterior \in [1..n -> coords]}

SimpleRingsOn(coords, n) == {ring \in RingsOn(coords, n) : SimpleRing(ring)}

\* the view the program has of a polygon: decoded from the bytes written
ZolygonOf(exterior) ==
    Zolygon_from_bytes(Zolygon_write_from_geometry(<<>>, exterior))

\* rings of three or four vertices on a 3 x 3 grid, and the empty polygon
PointInPolygonCoords == (0..2) \X (0..2)

PointInPolygonRings ==
    {<<>>} \cup SimpleRingsOn(PointInPolygonCoords, 3)
           \cup SimpleRingsOn(PointInPolygonCoords, 4)

InitPointInPolygon ==
    /\ geometry = None
    /\ writer = None
    /\ view = None
    /\ lhs \in {ZolygonOf(ring) : ring \in PointInPolygonRings}
    /\ rhs \in PointInPolygonCoords
    /\ relation = None
    /\ output = None
    /\ pc = "ready"

ZolygonRelationCoord ==
    /\ pc = "ready"
    /\ output' = Zolygon_relation_Coord(lhs, rhs)
    /\ pc' = "done"
    /\ UNCHANGED <<geometry, writer, view, lhs, rhs, relation>>

NextPointInPolygon == ZolygonRelationCoord

SpecPointInPolygon == InitPointInPolygon /\ [][NextPointInPolygon]_vars

\* ======================================== polygon and polygon specification
\* The first polygon has three or four vertices on a grid 3 wide and 4 high,
\* the second one is a triangle on the unit square (1..2) x (0..1); every
\* ring is simple: the relation is only specified for simple polygons.
PolygonCoords == (0..2) \X (0..3)

TriangleCoords == (1..2) \X (0..1)

InitPolygons ==
    /\ geometry = None
    /\ writer = None
    /\ view = None
    /\ lhs \in {ZolygonOf(ring) : ring \in SimpleRingsOn(PolygonCoords, 3)
                                        \cup SimpleRingsOn(PolygonCoords, 4)}
    /\ rhs = None
    /\ relation = None
    /\ output = None
    /\ pc = "ready"

ZolygonRelationZolygon ==
    /\ pc = "ready"
    /\ \E ring \in SimpleRingsOn(TriangleCoords, 3) :
          /\ rhs' = ZolygonOf(ring)
          /\ output' = Zolygon_relation_Zolygon(lhs, ZolygonOf(ring))
    /\ pc' = "done"
    /\ UNCHANGED <<geometry, writer, view, lhs, relation>>

NextPolygons == ZolygonRelationZolygon

SpecPolygons == InitPolygons /\ [][NextPolygons]_vars

\* ======================================= multi geometries specification
\* The polygons are rectangles [l, r] x [0, 4] with l < r among 0, 4 and 8,
\* and cells [x - 1, x + 1] x [1, 3] around the longitudes 2 and 6, wound
\* counter-clockwise; the points are the centres (x, 2) of the cells; the
\* lines are the vertical lines (x, 1) - (x, 3) through the centres and the
\* horizontal line between the two centres.  Rectangles overlap, and a
\* cell, a vertical line or a point lies strictly inside one or several of
\* them, or outside.
Rect(l, b, r, t) == <<<<l, b>>, <<r, b>>, <<r, t>>, <<l, t>>, <<l, b>>>>

RectSides == {0, 4, 8}

CentreLongitudes == {2, 6}

Rects ==
    {Rect(c[1], 0, c[2], 4) : c \in {c \in RectSides \X RectSides : c[1] < c[2]}}

Cells == {Rect(x - 1, 1, x + 1, 3) : x \in CentreLongitudes}

Centres == {<<x, 2>> : x \in CentreLongitudes}

MultiLinesParts ==
    {<<<<x, 1>>, <<x, 3>>>> : x \in CentreLongitudes} \cup {<<<<2, 2>>, <<6, 2>>>>}

ZultiLinesOf(ls) ==
    ZultiLines_from_bytes(ZultiLines_write_from_geometry(<<>>, ls))

ZultiPolygonsOf(ps) ==
    ZultiPolygons_from_bytes(ZultiPolygons_write_from_geometry(<<>>, ps))

ZultiPointsOf(coords) ==
    ZultiPoints_from_bytes(ZultiPoints_write_from_geometry(<<>>, coords))

InitMulti ==
    /\ geometry = None
    /\ writer = None
    /\ view = None
    /\ lhs \in {[kind |-> "MultiLines", value |-> ZultiLinesOf(ls)] :
                   ls \in SeqsUpTo(MultiLinesParts, MaxParts)}
               \cup {[kind |-> "MultiPolygons", value |-> ZultiPolygonsOf(ps)] :
                        ps \in SeqsUpTo(Rects, MaxParts)}
    /\ rhs = None
    /\ relation \in {InputRelation_all, InputRelation_any}
    /\ output = None
    /\ pc = "ready"

ZultiLinesRelationZolygon ==
    /\ pc = "ready" /\ lhs.kind = "MultiLines"
    /\ \E exterior \in Rects \cup Cells :
          /\ rhs' = [kind |-> "Polygon", value |-> ZolygonOf(exterior)]
          /\ output' = ZultiLines_relation_Zolygon(lhs.value, ZolygonOf(exterior), relation)
    /\ pc' = "done"
    /\ UNCHANGED <<geometry, writer, view, lhs, relation>>

ZultiLinesRelationZultiPolygons ==
    /\ pc = "ready" /\ lhs.kind = "MultiLines"
    /\ \E ps \in SeqsUpTo(Rects \cup Cells, MaxParts) :
          /\ rhs' = [kind |-> "MultiPolygons", value |-> ZultiPolygonsOf(ps)]
          /\ output' = ZultiLines_relation_ZultiPolygons(lhs.value, ZultiPolygonsOf(ps), relation)
    /\ pc' = "done"
    /\ UNCHANGED <<geometry, writer, view, lhs, relation>>

ZultiPolygonsRelationZultiPoints ==
    /\ pc = "ready" /\ lhs.kind = "MultiPolygons"
    /\ \E coords \in SeqsUpTo(Centres, MaxParts) :
          /\ rhs' = [kind |-> "MultiPoints", value |-> ZultiPointsOf(coords)]
          /\ output' = ZultiPolygons_relation_ZultiPoints(lhs.value, ZultiPointsOf(coords), relation)
    /\ pc' = "done"
    /\ UNCHANGED <<geometry, writer, view, lhs, relation>>

ZultiPolygonsRelationZultiPolygons ==
    /\ pc = "ready" /\ lhs.kind = "MultiPolygons"
    /\ \E ps \in SeqsUpTo(Rects \cup Cells, MaxParts) :
          /\ rhs' = [kind |-> "MultiPolygons", value |-> ZultiPolygonsOf(ps)]
          /\ output' = ZultiPolygons_relation_ZultiPolygons(lhs.value, ZultiPolygonsOf(ps), relation)
    /\ pc' = "done"
    /\ UNCHANGED <<geometry, writer, view, lhs, relation>>

NextMulti ==
    \/ ZultiLinesRelationZolygon
    \/ ZultiLinesRelationZultiPolygons
    \/ ZultiPolygonsRelationZultiPoints
    \/ ZultiPolygonsRelationZultiPolygons

SpecMulti == InitMulti /\ [][NextMulti]_vars

\* ============================================ relation trait specification
\* Every implementation of relation() on views of encoded shapes, under a
\* family of requests.  The shapes lie on the rectangles of the multi
\* geometries, with one more polygon across the line of longitude 4.
AcrossFour == Rect(3, 1, 5, 3)

PartLines == {<<<<2, 1>>, <<2, 3>>>>, <<<<2, 2>>, <<6, 2>>>>}

PartPolygons == {Rect(0, 0, 8, 4), Rect(0, 0, 4, 4), Rect(1, 1, 3, 3)}

\* a line and a polygon away from all the others, above and to the right
FarLine == <<<<9, 5>>, <<10, 6>>>>

FarPolygon == Rect(9, 5, 10, 6)

ZineOf(line) == Zine_from_bytes(Zine_write_from_geometry(<<>>, line))

ZointOf(point) == Zoint_from_bytes(Zoint_write_from_geometry(<<>>, point))

Operands ==
    {[kind |-> "Point", value |-> ZointOf(c)] : c \in Centres}
    \cup {[kind |-> "MultiPoints", value |-> ZultiPointsOf(cs)] :
             cs \in SeqsUpTo(Centres, MaxParts)}
    \cup {[kind |-> "Line", value |-> ZineOf(l)] : l \in MultiLinesParts \cup {<<>>, FarLine}}
    \cup {[kind |-> "MultiLines", value |-> ZultiLinesOf(ls)] :
             ls \in SeqsUpTo(PartLines, MaxParts) \cup {<<FarLine>>}}
    \cup {[kind |-> "Polygon", value |-> ZolygonOf(p)] :
             p \in Rects \cup Cells \cup {AcrossFour, <<>>, FarPolygon}}
    \cup {[kind |-> "MultiPolygons", value |-> ZultiPolygonsOf(ps)] :
             ps \in SeqsUpTo(PartPolygons, MaxParts) \cup {<<FarPolygon>>}}

Flags ==
    {"contains", "strict_contains", "contained", "strict_contained",
     "intersect", "disjoint"}

Requests ==
    {InputRelation_all, InputRelation_any}
    \cup {query(flag) : flag \in Flags}
    \cup {[query("contains") EXCEPT !.intersect = TRUE]}
    \cup {[InputRelation_default EXCEPT !.contains = TRUE, !.strict_contains = TRUE],
          [InputRelation_default EXCEPT !.contained = TRUE, !.strict_contained = TRUE]}

InitRelation ==
    /\ geometry = None
    /\ writer = None
    /\ view = None
    /\ lhs \in Operands
    /\ rhs = None
    /\ relation \in Requests
    /\ output = None
    /\ pc = "ready"

ZointRelation ==
    /\ pc = "ready" /\ lhs.kind = "Point"
    /\ \E other \in Operands :
          /\ other.kind \in Implemented("Point")
          /\ rhs' = other
          /\ output' = Zoint_relation(lhs.value, other, relation)
    /\ pc' = "done"
    /\ UNCHANGED <<geometry, writer, view, lhs, relation>>

\* the relations of ZultiPoints and Zolygon answer with one Relation
ZultiPointsRelation ==
    /\ pc = "ready" /\ lhs.kind = "MultiPoints"
    /\ \E other \in Operands :
          /\ other.kind \in Implemented("MultiPoints")
          /\ rhs' = other
          /\ output' = Relation_into_output(ZultiPoints_relation(lhs.value, other), relation)
    /\ pc' = "done"
    /\ UNCHANGED <<geometry, writer, view, lhs, relation>>

ZineRelation ==
    /\ pc = "ready" /\ lhs.kind = "Line"
    /\ \E other \in Operands :
          /\ other.kind \in Implemented("Line")
          /\ rhs' = other
          /\ output' = Zine_relation(lhs.value, other, relation)
    /\ pc' = "done"
    /\ UNCHANGED <<geometry, writer, view, lhs, relation>>

ZultiLinesRelation ==
    /\ pc = "ready" /\ lhs.kind = "MultiLines"
    /\ \E other \in Operands :
          /\ other.kind \in Implemented("MultiLines")
          /\ rhs' = other
          /\ output' = ZultiLines_relation(lhs.value, other, relation)
    /\ pc' = "done"
    /\ UNCHANGED <<geometry, writer, view, lhs, relation>>

ZolygonRelation ==
    /\ pc = "ready" /\ lhs.kind = "Polygon"
    /\ \E other \in Operands :
          /\ other.kind \in Implemented("Polygon")
          /\ rhs' = other
          /\ output' = Relation_into_output(Zolygon_relation(lhs.value, other), relation)
    /\ pc' = "done"
    /\ UNCHANGED <<geometry, writer, view, lhs, relation>>

ZultiPolygonsRelation ==
    /\ pc = "ready" /\ lhs.kind = "MultiPolygons"
    /\ \E other \in Operands :
          /\ other.kind \in Implemented("MultiPolygons")
          /\ rhs' = other
          /\ output' = ZultiPolygons_relation(lhs.value, other, relation)
    /\ pc' = "done"
    /\ UNCHANGED <<geometry, writer, view, lhs, relation>>

NextRelation ==
    \/ ZointRelation
    \/ ZultiPointsRelation
    \/ ZineRelation
    \/ ZultiLinesRelation
    \/ ZolygonRelation
    \/ ZultiPolygonsRelation

SpecRelation == InitRelation /\ [][NextRelation]_vars

\* ------------------------------------------------------------------ claims
SegNonDegenerate == lhs.start # lhs.end /\ rhs.start # rhs.end

\* C5: segment intersection is symmetric: a.intersects(b) equals
\* b.intersects(a) for every pair of segments.
C5_Symmetric ==
    pc = "done" => (output = intersects(rhs, lhs))

SharedEndpoint ==
    \/ lhs.start = rhs.start \/ lhs.start = rhs.end
    \/ lhs.end = rhs.start \/ lhs.end = rhs.end

CollinearOverlap ==
    /\ orientation(lhs.start, lhs.end, rhs.start) = 0
    /\ orientation(lhs.start, lhs.end, rhs.end) = 0
    /\ \/ on_segment(lhs.start, rhs.start, lhs.end)
       \/ on_segment(lhs.start, rhs.end, lhs.end)
       \/ on_segment(rhs.start, lhs.start, rhs.end)
       \/ on_segment(rhs.start, lhs.end, rhs.end)

GeneralPosition ==
    /\ orientation(lhs.start, lhs.end, rhs.start) # 0
    /\ orientation(lhs.start, lhs.end, rhs.end) # 0
    /\ orientation(rhs.start, rhs.end, lhs.start) # 0
    /\ orientation(rhs.start, rhs.end, lhs.end) # 0

Straddle ==
    /\ orientation(lhs.start, lhs.end, rhs.start)
         # orientation(lhs.start, lhs.end, rhs.end)
    /\ orientation(rhs.start, rhs.end, lhs.start)
         # orientation(rhs.start, rhs.end, lhs.end)

\* C6: intersects is true for segments that share an endpoint and for
\* overlapping collinear segments, and for segments in general position it
\* is true exactly when each segment's endpoints lie on opposite sides of
\* the other segment.
C6_EndpointsAndStraddle ==
    (pc = "done" /\ SegNonDegenerate) =>
        /\ (SharedEndpoint \/ CollinearOverlap) => output
        /\ GeneralPosition => (output <=> Straddle)

\* C7: the bounding-box relation is antisymmetric: for two different boxes
\* A.relation(B) is Contains exactly when B.relation(A) is Contained, and
\* Disjoint and Intersects are each reported in both directions or in
\* neither.
C7_BoxAntisymmetric ==
    (pc = "done" /\ rhs.kind = "BoundingBox" /\ lhs.bb # rhs.bb) =>
        LET back == BoundingBox_relation_BoundingBox(rhs.bb, lhs.bb, relation)
        IN  /\ IsContains(output) <=> IsContained(back)
            /\ IsDisjoint(output) <=> IsDisjoint(back)
            /\ IsIntersects(output) <=> IsIntersects(back)

SharePoint(a, b) ==
    /\ left(a) <= right(b) /\ left(b) <= right(a)
    /\ bottom(a) <= top(b) /\ bottom(b) <= top(a)

\* C8: bounding boxes are closed: the box relation is Disjoint only when the
\* two rectangles share no point (boxes touching at an edge or a corner are
\* never Disjoint), and a coordinate on an edge or a corner of a box is
\* contained by it.
C8_BoxClosed ==
    pc = "done" =>
        /\ rhs.kind = "BoundingBox" =>
              (IsDisjoint(output) => ~SharePoint(lhs.bb, rhs.bb))
        /\ rhs.kind = "Coord" =>
              ((/\ bottom(lhs.bb) <= lat(rhs.coord)
                /\ lat(rhs.coord) <= top(lhs.bb)
                /\ left(lhs.bb) <= lng(rhs.coord)
                /\ lng(rhs.coord) <= right(lhs.bb))
               => (IsContains(output) /\ ~IsDisjoint(output)))

C8_Witness ==
    /\ pc = "done"
    /\ rhs.kind = "BoundingBox"
    /\ right(lhs.bb) = left(rhs.bb)
    /\ left(lhs.bb) < right(lhs.bb)
    /\ left(rhs.bb) < right(rhs.bb)
    /\ bottom(lhs.bb) < top(lhs.bb)
    /\ top(lhs.bb) = bottom(rhs.bb)
    /\ ~IsDisjoint(output)

\* ------------------------------------------------------------ codec claims
\* C1: decoding the bytes written for a Point, MultiPoint, LineString,
\* MultiLineString, Polygon or MultiPolygon yields the same number of
\* members and the same coordinates in the same order, empty geometries and
\* empty members included.
C1_RoundTrip ==
    pc = "decoded" =>
        CASE geometry.kind = "Point" ->
               view.kind = "Point" /\ view.value.coord = geometry.point
          [] geometry.kind = "MultiPoint" ->
               view.kind = "MultiPoints" /\ view.value.coords = geometry.points
          [] geometry.kind = "LineString" ->
               view.kind = "Line" /\ view.value.coords = geometry.line
          [] geometry.kind = "Polygon" ->
               view.kind = "Polygon" /\ view.value.coords = geometry.exterior
          [] geometry.kind = "MultiLineString" ->
               /\ view.kind = "MultiLines"
               /\ ZultiLines_len(view.value) = Len(geometry.lines)
               /\ \A i \in 1..Len(geometry.lines) :
                     lines(view.value)[i].coords = geometry.lines[i]
          [] geometry.kind = "MultiPolygon" ->
               /\ view.kind = "MultiPolygon"
               /\ ZultiPolygons_len(view.value) = Len(geometry.polygons)
               /\ \A i \in 1..Len(geometry.polygons) :
                     polygons(view.value)[i].coords = geometry.polygons[i]
          [] OTHER -> TRUE

C1_Witness ==
    /\ pc = "decoded"
    /\ geometry.kind = "MultiLineString"
    /\ Len(geometry.lines) = 2
    /\ Len(geometry.lines[1]) = 2
    /\ geometry.lines[2] = <<>>
    /\ lines(view.value)[1].coords = geometry.lines[1]
    /\ lines(view.value)[2].coords = <<>>

\* the box is ordered, holds every vertex, and is the origin for no vertex
BoxCovers(bb, vertices) ==
    /\ left(bb) <= right(bb)
    /\ bottom(bb) <= top(bb)
    /\ \A i \in 1..Len(vertices) :
          /\ left(bb) <= vertices[i][1] /\ vertices[i][1] <= right(bb)
          /\ bottom(bb) <= vertices[i][2] /\ vertices[i][2] <= top(bb)
    /\ vertices = <<>> => bb = <<<<0, 0>>, <<0, 0>>>>

LinesCovered(v, members) ==
    /\ BoxCovers(v.bounding_box, flat_map(members, 1))
    /\ \A i \in 1..Len(members) :
          BoxCovers(lines(v)[i].bounding_box, members[i])

PolygonsCovered(v, members) ==
    /\ BoxCovers(v.bounding_box, flat_map(members, 1))
    /\ \A i \in 1..Len(members) :
          BoxCovers(polygons(v)[i].bounding_box, members[i])

\* C2: every stored bounding box has left <= right and bottom <= top and
\* holds every vertex of its geometry (edges included), and a geometry with
\* no vertex stores the box (0,0)-(0,0); this holds for the single
\* geometries, for the multi geometries and their members, and for the
\* collection and its parts.
C2_BoundingBox ==
    pc = "decoded" =>
        CASE geometry.kind = "MultiPoint" ->
               BoxCovers(view.value.bounding_box, geometry.points)
          [] geometry.kind = "LineString" ->
               BoxCovers(view.value.bounding_box, geometry.line)
          [] geometry.kind = "Polygon" ->
               BoxCovers(view.value.bounding_box, geometry.exterior)
          [] geometry.kind = "MultiLineString" ->
               LinesCovered(view.value, geometry.lines)
          [] geometry.kind = "MultiPolygon" ->
               PolygonsCovered(view.value, geometry.polygons)
          [] geometry.kind = "GeometryCollection" ->
               LET flat == flatten_geometry_collection(geometry.geometries)
               IN  /\ BoxCovers(view.value.bounding_box,
                                flat.points \o flat_map(flat.lines, 1)
                                  \o flat_map(flat.polygons, 1))
                   /\ BoxCovers(view.value.points.bounding_box, flat.points)
                   /\ LinesCovered(view.value.lines, flat.lines)
                   /\ PolygonsCovered(view.value.polygons, flat.polygons)
          [] OTHER -> TRUE

C2_Witness ==
    /\ pc = "decoded"
    /\ geometry.kind = "GeometryCollection"
    /\ Len(geometry.geometries) = 2
    /\ geometry.geometries[1].kind = "Point"
    /\ geometry.geometries[2].kind = "LineString"
    /\ view.value.bounding_box = <<<<-3, -2>>, <<1, 4>>>>
    /\ view.value.lines.bounding_box = <<<<-3, 4>>, <<-3, 4>>>>
    /\ view.value.polygons.bounding_box = <<<<0, 0>>, <<0, 0>>>>

\* ---------------------------------------------------------- polygon claims
OnBoundary(ring, p) ==
    \E i \in 1..(Len(ring) - 1) :
        /\ orientation(ring[i], ring[i + 1], p) = 0
        /\ on_segment(ring[i], p, ring[i + 1])

\* the edge from a to b crosses the horizontal half line that leaves p to
\* the right (an edge counts for its lower end only)
CrossesHalfLine(a, b, p) ==
    /\ (a[2] > p[2]) # (b[2] > p[2])
    /\ IF b[2] > a[2]
       THEN (p[1] - a[1]) * (b[2] - a[2]) < (b[1] - a[1]) * (p[2] - a[2])
       ELSE (p[1] - a[1]) * (b[2] - a[2]) > (b[1] - a[1]) * (p[2] - a[2])

RECURSIVE Crossings(_, _, _)
Crossings(ring, p, i) ==
    IF i >= Len(ring) THEN 0
    ELSE (IF CrossesHalfLine(ring[i], ring[i + 1], p) THEN 1 ELSE 0)
           + Crossings(ring, p, i + 1)

StrictlyInside(ring, p) ==
    ~OnBoundary(ring, p) /\ Crossings(ring, p, 1) % 2 = 1

StrictlyOutside(ring, p) ==
    ~OnBoundary(ring, p) /\ Crossings(ring, p, 1) % 2 = 0

\* C3: the relation of a polygon to a coordinate is Disjoint when the
\* polygon is empty or the coordinate is outside its bounding box; every
\* coordinate strictly inside a simple ring yields Contains and every
\* coordinate strictly outside yields Disjoint.
C3_PointInPolygon ==
    pc = "done" =>
        /\ (lhs.coords = <<>> \/ ~contains_coord(lhs.bounding_box, rhs))
              => output = "Disjoint"
        /\ lhs.coords # <<>> =>
              /\ StrictlyInside(lhs.coords, rhs) => output = "Contains"
              /\ StrictlyOutside(lhs.coords, rhs) => output = "Disjoint"

\* C4: swapping the operands of the polygon to polygon relation swaps
\* Contains and Contained and keeps Intersects and Disjoint, for all
\* non-empty polygons.
C4_SwapConsistent ==
    (pc = "done" /\ lhs.coords # <<>> /\ rhs.coords # <<>>) =>
        LET back == Zolygon_relation_Zolygon(rhs, lhs)
        IN  /\ output = "Intersects" <=> back = "Intersects"
            /\ output = "Contains" <=> back = "Contained"
            /\ output = "Disjoint" <=> back = "Disjoint"

\* ----------------------------------------------- multi geometry claims
\* the members of the second operand, one polygon or several
PolygonsOfRhs ==
    IF rhs.kind = "Polygon" THEN <<rhs.value>> ELSE polygons(rhs.value)

\* a line is contained by a polygon when the relation of the two says so
LineContainedBy(line, polygon) ==
    unwrap_or_default(Zine_relation_Zolygon(line, polygon, InputRelation_all).contained)

\* a polygon contains another one when the relation of the two says so
PolygonContains(l, r) ==
    unwrap_or_default(Zolygon_relation_Zolygon_flags(l, r, InputRelation_all).contains)

\* C9: with every relation requested and no early exit, a multi line
\* against a polygon or a multi polygon answers strict_contained = true
\* exactly when every one of its lines is contained by the polygon, or by
\* at least one of the polygons.
C9_StrictContained ==
    (/\ pc = "done" /\ relation = InputRelation_all
     /\ lhs.kind = "MultiLines" /\ ~ZultiLines_is_empty(lhs.value)
     /\ PolygonsOfRhs # <<>>) =>
        (output.strict_contained = Some(TRUE)
           <=> \A i \in 1..ZultiLines_len(lhs.value) :
                  \E j \in 1..Len(PolygonsOfRhs) :
                     LineContainedBy(lines(lhs.value)[i], PolygonsOfRhs[j]))

\* C10: with every relation requested and no early exit, a multi polygon
\* against a multi point or a multi polygon answers strict_contains = true
\* exactly when every point, or every polygon, of the second operand is
\* contained by at least one polygon of the first.
C10_StrictContains ==
    (/\ pc = "done" /\ relation = InputRelation_all
     /\ lhs.kind = "MultiPolygons" /\ ~ZultiPolygons_is_empty(lhs.value)) =>
        /\ (rhs.kind = "MultiPoints" /\ ~ZultiPoints_is_empty(rhs.value)) =>
              (output.strict_contains = Some(TRUE)
                 <=> \A i \in 1..ZultiPoints_len(rhs.value) :
                        \E j \in 1..ZultiPolygons_len(lhs.value) :
                           Zolygon_contains_Coord(polygons(lhs.value)[j],
                                                  rhs.value.coords[i]))
        /\ (rhs.kind = "MultiPolygons" /\ ~ZultiPolygons_is_empty(rhs.value)) =>
              (output.strict_contains = Some(TRUE)
                 <=> \A i \in 1..ZultiPolygons_len(rhs.value) :
                        \E j \in 1..ZultiPolygons_len(lhs.value) :
                           PolygonContains(polygons(lhs.value)[j],
                                           polygons(rhs.value)[i]))

\* ------------------------------------------------ relation trait claims
\* C11: in the output of every relation() implementation, for a request
\* that asks for both flags, strict_contains = true implies contains = true
\* and strict_contained = true implies contained = true.
C11_StrictImpliesNonStrict ==
    pc = "done" =>
        /\ (/\ relation.contains /\ relation.strict_contains
            /\ output.strict_contains = Some(TRUE)) => output.contains = Some(TRUE)
        /\ (/\ relation.contained /\ relation.strict_contained
            /\ output.strict_contained = Some(TRUE)) => output.contained = Some(TRUE)

\* a multi polygon that strictly contains another one, both flags asked
C11_Witness ==
    /\ pc = "done" /\ relation.contains /\ relation.strict_contains
    /\ lhs.kind = "MultiPolygons" /\ rhs.kind = "MultiPolygons"
    /\ output.strict_contains = Some(TRUE)

\* the pair also intersects: the exhaustive answer has intersect = true
WouldIntersect ==
    unwrap_or_default(relation_of(lhs, rhs, InputRelation_all).intersect)

\* C12: with early exit, on a pair that contains and would also intersect,
\* a request of contains and intersect comes back with contains = true and
\* intersect = false, a set value; a request of contains alone comes back
\* with contains = true and intersect unset.
C12_EarlyExitShape ==
    (pc = "done" /\ output.contains = Some(TRUE) /\ WouldIntersect) =>
        /\ relation = [query("contains") EXCEPT !.intersect = TRUE] =>
              output.intersect = Some(FALSE)
        /\ relation = query("contains") => output.intersect = None

\* a multi polygon whose first polygon contains the polygon and whose
\* second one intersects it, asked for contains and intersect
C12_Witness ==
    /\ pc = "done" /\ output.contains = Some(TRUE) /\ WouldIntersect
    /\ lhs.kind = "MultiPolygons" /\ rhs.kind = "Polygon"
    /\ relation = [query("contains") EXCEPT !.intersect = TRUE]
    /\ output.intersect = Some(FALSE)

\* C12 as stated: the request of contains alone, with early exit, comes
\* back with intersect = false, a set value.
C12_AsStated ==
    (/\ pc = "done" /\ relation = query("contains")
     /\ output.contains = Some(TRUE) /\ WouldIntersect) =>
        output.intersect = Some(FALSE)

\* the queries of the trait on the two operands
disjoint(a, b) == unwrap_or_default(relation_of(a, b, query("disjoint")).disjoint)

strict_contains(a, b) ==
    unwrap_or_default(relation_of(a, b, query("strict_contains")).strict_contains)

strict_contained(a, b) ==
    unwrap_or_default(relation_of(a, b, query("strict_contained")).strict_contained)

\* C13: for every pair of shapes, disjoint() is the disjoint flag of
\* all_relation().
C13_DisjointQuery ==
    (pc = "done" /\ relation = InputRelation_all) =>
        output.disjoint = Some(disjoint(lhs, rhs))

\* C14: strict_contains() and strict_contained(), which request their one
\* flag with early exit, are the flags of the same name of all_relation().
C14_StrictQueries ==
    (pc = "done" /\ relation = InputRelation_all) =>
        /\ output.strict_contains = Some(strict_contains(lhs, rhs))
        /\ output.strict_contained = Some(strict_contained(lhs, rhs))

\* C15: with a point or a multi point as first operand, no second operand
\* and no request give contains, strict_contains or intersect = true.
C15_PointsContainNothing ==
    (pc = "done" /\ lhs.kind \in {"Point", "MultiPoints"}) =>
        /\ output.contains # Some(TRUE)
        /\ output.strict_contains # Some(TRUE)
        /\ output.intersect # Some(TRUE)

\* a point inside a polygon of a multi polygon: the relation is computed
\* from the multi polygon's side and swapped
C15_Witness ==
    /\ pc = "done" /\ lhs.kind = "Point" /\ rhs.kind = "MultiPolygons"
    /\ relation.contains /\ relation.contained
    /\ output.contained = Some(TRUE) /\ output.contains = Some(FALSE)

\* no segment of the line crosses an edge of the polygon, and the first
\* vertex of the line is inside the polygon
LineInside(line, polygon) ==
    /\ ~Zine_is_empty(line) /\ ~Zolygon_is_empty(polygon)
    /\ ~any_segments_intersect(Zine_segments(line), Zolygon_segments(polygon))
    /\ Zolygon_contains_Coord(polygon, line.coords[1])

\* C16: a line or a multi line against a polygon or a multi polygon never
\* answers contains = true or strict_contains = true, whatever the
\* request; a line that crosses no edge of a polygon and has its first
\* vertex inside it answers contained = true when asked.
C16_LinesContainNothing ==
    (/\ pc = "done" /\ lhs.kind \in {"Line", "MultiLines"}
     /\ rhs.kind \in {"Polygon", "MultiPolygons"}) =>
        /\ output.contains # Some(TRUE)
        /\ output.strict_contains # Some(TRUE)
        /\ (/\ lhs.kind = "Line" /\ rhs.kind = "Polygon" /\ relation.contained
            /\ LineInside(lhs.value, rhs.value)) =>
                output.contained = Some(TRUE)

\* ------------------------------------------------- codec layout claims
\* the members of the multi geometry that was written, and their bytes
Members ==
    IF geometry.kind = "MultiLineString" THEN geometry.lines ELSE geometry.polygons

MemberPayload(i) ==
    IF geometry.kind = "MultiLineString"
    THEN Zine_write_from_geometry(<<>>, Members[i])
    ELSE Zolygon_write_from_geometry(<<>>, Members[i])

\* the bytes of the members before member i (1-based)
RECURSIVE PayloadBefore(_)
PayloadBefore(i) ==
    IF i <= 1 THEN <<>> ELSE PayloadBefore(i - 1) \o MemberPayload(i - 1)

MultiGet(index) ==
    IF geometry.kind = "MultiLineString"
    THEN ZultiLines_get(view.value, index)
    ELSE ZultiPolygons_get(view.value, index)

MultiLen ==
    IF geometry.kind = "MultiLineString"
    THEN ZultiLines_len(view.value) ELSE ZultiPolygons_len(view.value)

RECURSIVE Atoms(_)
RECURSIVE AtomsOfAll(_, _)
Atoms(g) ==
    CASE g.kind = "Point" -> <<[kind |-> "Point", of |-> g.point]>>
      [] g.kind = "MultiPoint" ->
            [i \in 1..Len(g.points) |-> [kind |-> "Point", of |-> g.points[i]]]
      [] g.kind = "LineString" -> <<[kind |-> "Line", of |-> g.line]>>
      [] g.kind = "MultiLineString" ->
            [i \in 1..Len(g.lines) |-> [kind |-> "Line", of |-> g.lines[i]]]
      [] g.kind = "Polygon" -> <<[kind |-> "Polygon", of |-> g.exterior]>>
      [] g.kind = "MultiPolygon" ->
            [i \in 1..Len(g.polygons) |-> [kind |-> "Polygon", of |-> g.polygons[i]]]
      [] g.kind = "GeometryCollection" -> AtomsOfAll(g.geometries, 1)

AtomsOfAll(geometries, i) ==
    IF i > Len(geometries) THEN <<>>
    ELSE Atoms(geometries[i]) \o AtomsOfAll(geometries, i + 1)

\* the atoms of one kind, in the order of the walk
Bucket(atoms, kind) ==
    LET IsKind(a) == a.kind = kind
        kept == SelectSeq(atoms, IsKind)
    IN  [i \in 1..Len(kept) |-> kept[i].of]

\* the three parts of the collection, as the multi geometries write them
PointsPayload ==
    ZultiPoints_write_from_geometry(<<>>, Bucket(Atoms(geometry), "Point"))

LinesPayload ==
    ZultiLines_write_from_geometry(<<>>, Bucket(Atoms(geometry), "Line"))

PolygonsPayload ==
    ZultiPolygons_write_from_geometry(<<>>, Bucket(Atoms(geometry), "Polygon"))

\* C18: a collection is written as its bounding box, two offsets o1 <= o2
\* of 4 bytes, then the multi point, the multi line and the multi polygon
\* of its members; measured from the first byte after the offsets, o1 is
\* the length of the multi point and o2 - o1 the length of the multi line.
\* Decoding slices [0, o1), [o1, o2) and [o2, end) and reads the three
\* parts back.
C18_CollectionLayout ==
    (pc \in {"written", "decoded"} /\ geometry.kind = "GeometryCollection") =>
        LET o1   == u32_from_ne_bytes(slice(writer, BOUNDING_BOX_SIZE_IN_BYTES,
                                            BOUNDING_BOX_SIZE_IN_BYTES + 4))
            o2   == u32_from_ne_bytes(slice(writer, BOUNDING_BOX_SIZE_IN_BYTES + 4,
                                            BOUNDING_BOX_SIZE_IN_BYTES + 8))
            rest == slice_from(writer, BOUNDING_BOX_SIZE_IN_BYTES + 8)
        IN  /\ o1 <= o2 /\ o2 <= Len(rest)
            /\ o1 = Len(PointsPayload)
            /\ o2 - o1 = Len(LinesPayload)
            /\ slice(rest, 0, o1) = PointsPayload
            /\ slice(rest, o1, o2) = LinesPayload
            /\ slice_from(rest, o2) = PolygonsPayload
            /\ pc = "decoded" =>
                  /\ view.value.points = ZultiPoints_from_bytes(slice(rest, 0, o1))
                  /\ view.value.lines = ZultiLines_from_bytes(slice(rest, o1, o2))
                  /\ view.value.polygons = ZultiPolygons_from_bytes(slice_from(rest, o2))
                  /\ view.value.points = ZultiPoints_from_bytes(PointsPayload)
                  /\ view.value.lines = ZultiLines_from_bytes(LinesPayload)
                  /\ view.value.polygons = ZultiPolygons_from_bytes(PolygonsPayload)

\* a collection with a point and a line: both offsets away from zero
C18_Witness ==
    /\ pc = "decoded" /\ geometry.kind = "GeometryCollection"
    /\ ZultiPoints_len(view.value.points) = 1
    /\ ZultiLines_len(view.value.lines) = 1
    /\ ZultiPolygons_len(view.value.polygons) = 0
    /\ u32_from_ne_bytes(slice(writer, BOUNDING_BOX_SIZE_IN_BYTES,
                               BOUNDING_BOX_SIZE_IN_BYTES + 4)) = 48
    /\ u32_from_ne_bytes(slice(writer, BOUNDING_BOX_SIZE_IN_BYTES + 4,
                               BOUNDING_BOX_SIZE_IN_BYTES + 8)) > 48

\* C19: every member of a collection that has no members of its own, at
\* any depth, is in the part of its kind exactly once, in the order of a
\* depth-first walk of the input; len() of the decoded collection is the
\* number of these members, and is_empty() holds exactly when it is 0.
C19_Flattening ==
    (pc = "decoded" /\ geometry.kind = "GeometryCollection") =>
        LET atoms == Atoms(geometry)
            ls    == Bucket(atoms, "Line")
            ps    == Bucket(atoms, "Polygon")
        IN  /\ view.value.points.coords = Bucket(atoms, "Point")
            /\ ZultiLines_len(view.value.lines) = Len(ls)
            /\ \A i \in 1..Len(ls) : lines(view.value.lines)[i].coords = ls[i]
            /\ ZultiPolygons_len(view.value.polygons) = Len(ps)
            /\ \A i \in 1..Len(ps) : polygons(view.value.polygons)[i].coords = ps[i]
            /\ Zollection_len(view.value) = Len(atoms)
            /\ Zollection_is_empty(view.value) <=> Len(atoms) = 0

\* a collection of a collection of a line and of a collection of a point
\* and a polygon, then a point: the point three levels down comes first
C19_Witness ==
    /\ pc = "decoded" /\ geometry.kind = "GeometryCollection"
    /\ Len(geometry.geometries) = 2
    /\ geometry.geometries[1].kind = "GeometryCollection"
    /\ Len(geometry.geometries[1].geometries) = 2
    /\ geometry.geometries[2] = [kind |-> "Point", point |-> <<-3, 4>>]
    /\ view.value.points.coords = <<<<1, -2>>, <<-3, 4>>>>
    /\ Zollection_len(view.value) = 4

\* the discriminant of each kind of geometry, and the kind of its view
Tag(kind) ==
    CASE kind = "Point" -> 0
      [] kind = "MultiPoint" -> 1
      [] kind = "Polygon" -> 2
      [] kind = "MultiPolygon" -> 3
      [] kind = "LineString" -> 4
      [] kind = "MultiLineString" -> 5
      [] kind = "GeometryCollection" -> 6

ViewKind(kind) ==
    CASE kind = "Point" -> "Point"
      [] kind = "MultiPoint" -> "MultiPoints"
      [] kind = "Polygon" -> "Polygon"
      [] kind = "MultiPolygon" -> "MultiPolygon"
      [] kind = "LineString" -> "Line"
      [] kind = "MultiLineString" -> "MultiLines"
      [] kind = "GeometryCollection" -> "Collection"

\* the six kinds that are not a collection: the tag written and the view read
TagsOfSix ==
    geometry.kind # "GeometryCollection" =>
        /\ pc \in {"written", "decoded"} =>
              u64_from_ne_bytes(slice(writer, 0, 8)) = Tag(geometry.kind)
        /\ pc = "decoded" => view.kind = ViewKind(geometry.kind)

\* C20: the encoder writes a discriminant of 8 bytes, 0 for Point, 1 for
\* MultiPoint, 2 for Polygon, 3 for MultiPolygon, 4 for LineString, 5 for
\* MultiLineString and 6 for GeometryCollection, and the decoder maps each
\* of the seven back to the same kind.
C20_TagMapping ==
    /\ TagsOfSix
    /\ geometry.kind = "GeometryCollection" =>
          /\ pc # "panic"
          /\ pc = "written" =>
                Zerometry_from_bytes(u64_to_ne_bytes(Tag(geometry.kind)) \o writer).kind
                  = ViewKind(geometry.kind)

\* ===================================================== decode specification
\* Zerometry::from_bytes on buffers that no encoder vouches for: the prefixes
\* of the encodings of a few geometries, and buffers with an unknown tag.
DecodeSamples ==
    {[kind |-> "Point", point |-> <<1, -2>>],
     [kind |-> "MultiPoint", points |-> <<<<1, -2>>, <<-3, 4>>>>],
     [kind |-> "Polygon", exterior |-> Polygon_new(<<<<0, 0>>, <<2, 0>>, <<2, 2>>>>)],
     [kind |-> "MultiPolygon",
      polygons |-> <<Polygon_new(<<<<0, 0>>, <<2, 0>>, <<2, 2>>>>)>>],
     [kind |-> "LineString", line |-> <<<<1, -2>>, <<-3, 4>>>>],
     [kind |-> "MultiLineString",
      lines |-> <<<<<<1, -2>>, <<-3, 4>>>>, <<<<0, 0>>, <<2, 2>>>>>>]}

UnknownTags == {6, 7, 255}

Prefixes(bytes) == {SubSeq(bytes, 1, n) : n \in 0..Len(bytes)}

Buffers ==
    UNION {Prefixes(Zerometry_write_from_geometry(<<>>, g)) : g \in DecodeSamples}
      \cup {u64_to_ne_bytes(tag) \o payload :
              tag \in UnknownTags, payload \in {<<>>, repeat_n(0, 16)}}
      \cup {<<0, 0, 0, 0, 0, 0, 0, 1>>}

\* What the slices, casts and assertions of a from_bytes do with its data:
\* "ok" when all of them pass, "panic" when an index is out of range or a
\* cast_slice does not fit, in every build, and "debug" when only a
\* debug_assert fails: a panic in a debug build, a value in a release build.
Coords_from_bytes_check(data) ==
    IF Len(data) % 8 # 0 THEN "panic"
    ELSE IF Len(data) % COORD_SIZE_IN_BYTES # 0 THEN "debug"
    ELSE "ok"

Coord_from_bytes_check(data) ==
    IF Len(data) = COORD_SIZE_IN_BYTES THEN "ok" ELSE "debug"

\* Zine, Zolygon and ZultiPoints: &data[0..32] then Coords::from_bytes
Zine_from_bytes_check(data) ==
    IF Len(data) < COORD_SIZE_IN_BYTES * 2 THEN "panic"
    ELSE Coords_from_bytes_check(slice_from(data, COORD_SIZE_IN_BYTES * 2))

\* ZultiLines and ZultiPolygons
Multi_from_bytes_check(data) ==
    IF Len(data) < BOUNDING_BOX_SIZE_IN_BYTES + 4 THEN "panic"
    ELSE LET data1 == slice_from(data, BOUNDING_BOX_SIZE_IN_BYTES)
             offsets_count == u32_from_ne_bytes(slice(data1, 0, 4))
             data2 == slice_from(data1, 4)
             size_of_offsets == offsets_count * 4
         IN  IF size_of_offsets > Len(data2) THEN "panic"
             ELSE IF offsets_count % 2 # 0 THEN "ok"
             ELSE IF Len(data2) - size_of_offsets < 4 THEN "panic"
             ELSE IF slice(data2, size_of_offsets, size_of_offsets + 4)
                       # <<0, 0, 0, 0>> THEN "debug"
             ELSE "ok"

Zerometry_from_bytes_check(data) ==
    IF Len(data) < 8 THEN "panic"
    ELSE LET tag  == u64_from_ne_bytes(slice(data, 0, 8))
             rest == slice_from(data, 8)
         IN  CASE tag = 0 -> Coord_from_bytes_check(rest)
               [] tag \in {1, 2, 4} -> Zine_from_bytes_check(rest)
               [] tag \in {3, 5} -> Multi_from_bytes_check(rest)
               [] OTHER -> "err"

\* the outcomes of Zerometry::from_bytes over the builds
FromBytesOutcomes(data) ==
    LET check == Zerometry_from_bytes_check(data)
    IN  CASE check = "ok" -> {"decoded"}
          [] check = "debug" -> {"panic", "decoded"}
          [] OTHER -> {check}

\* The value the release build hands out. A Zoint over other than 16 bytes
\* is a reference whose reads are out of bounds: nothing is known of it.
Decoded(data) ==
    IF Zerometry_from_bytes_check(data) = "debug"
         /\ u64_from_ne_bytes(slice(data, 0, 8)) = 0
    THEN [kind |-> "Point", value |-> None]
    ELSE Zerometry_from_bytes(data)

\* Coords::iter then lng() and lat() of each chunk: the last chunk of an odd
\* number of floats has no lat
Coords_to_geo_check(data) ==
    IF Len(data) % COORD_SIZE_IN_BYTES # 0 THEN "panic" ELSE "ok"

\* get(index) of every member, then to_geo of the member
RECURSIVE Multi_to_geo_check(_, _)
Multi_to_geo_check(self, index) ==
    IF index >= Len(self.offsets) THEN "ok"
    ELSE LET offset      == self.offsets[index + 1]
             next_offset == IF index + 2 <= Len(self.offsets)
                            THEN self.offsets[index + 2] ELSE Len(self.bytes)
         IN  IF offset > next_offset \/ next_offset > Len(self.bytes) THEN "panic"
             ELSE IF Zine_from_bytes_check(slice(self.bytes, offset, next_offset))
                       = "panic" THEN "panic"
             ELSE IF Coords_to_geo_check(slice(self.bytes, offset, next_offset))
                       = "panic" THEN "panic"
             ELSE Multi_to_geo_check(self, index + 1)

\* the outcomes of to_geo on a decoded value
ToGeoOutcomes(data, decoded) ==
    CASE decoded.kind = "Point" ->
           IF Coord_from_bytes_check(slice_from(data, 8)) = "debug"
           THEN {"panic", "ok"} ELSE {"ok"}
      [] decoded.kind \in {"MultiPoints", "Polygon", "Line"} ->
           {Coords_to_geo_check(slice_from(data, 8 + COORD_SIZE_IN_BYTES * 2))}
      [] OTHER -> {Multi_to_geo_check(decoded.value, 0)}

InitDecode ==
    /\ geometry = None
    /\ writer \in Buffers
    /\ view = None
    /\ lhs = None
    /\ rhs = None
    /\ relation = None
    /\ output = None
    /\ pc = "ready"

DecodeFromBytes ==
    /\ pc = "ready"
    /\ \E outcome \in FromBytesOutcomes(writer) :
         /\ pc' = outcome
         /\ view' = IF outcome = "decoded" THEN Decoded(writer) ELSE None
    /\ UNCHANGED <<geometry, writer, lhs, rhs, relation, output>>

DecodedToGeo ==
    /\ pc = "decoded"
    /\ \E outcome \in ToGeoOutcomes(writer, view) :
         pc' = IF outcome = "ok" THEN "queried" ELSE "query panic"
    /\ UNCHANGED <<geometry, writer, view, lhs, rhs, relation, output>>

NextDecode ==
    \/ DecodeFromBytes
    \/ DecodedToGeo

SpecDecode == InitDecode /\ [][NextDecode]_vars

\* ------------------------------------------------------------ decode claims
UnknownTag(data) ==
    Len(data) >= 8 /\ u64_from_ne_bytes(slice(data, 0, 8)) \notin 0..5

\* C21: Zerometry::from_bytes answers every buffer that is shorter than the
\* 8-byte tag, or whose tag is not a known discriminant, with the invalid-data
\* error, without a panic and without a geometry; and no query on the value
\* decoded from a buffer it accepts fails.
C21_OneDecodeError ==
    /\ (pc # "ready" /\ (Len(writer) < 8 \/ UnknownTag(writer))) => pc = "err"
    /\ pc # "query panic"

\* ----------------------------------------------- relation trait claims, more
Composite == {"Line", "MultiLines", "Polygon", "MultiPolygons"}

OperandIsEmpty(operand) ==
    CASE operand.kind = "Line" -> Zine_is_empty(operand.value)
      [] operand.kind = "MultiLines" -> ZultiLines_is_empty(operand.value)
      [] operand.kind = "Polygon" -> Zolygon_is_empty(operand.value)
      [] operand.kind = "MultiPolygons" -> ZultiPolygons_is_empty(operand.value)
      [] OTHER -> FALSE

ShortCircuit ==
    /\ pc = "done"
    /\ lhs.kind \in Composite
    /\ rhs.kind \in Composite
    /\ \/ OperandIsEmpty(lhs)
       \/ OperandIsEmpty(rhs)
       \/ BoundingBox_disjoint(lhs.value.bounding_box, rhs.value.bounding_box)

\* C22: between lines, multi lines, polygons and multi polygons, when an
\* operand is empty or the bounding boxes are disjoint, the output has
\* disjoint = true if requested and every other requested flag false,
\* whatever the request and with or without early exit.
C22_ShortCircuit ==
    ShortCircuit =>
        output = [contains         |-> IF relation.contains THEN Some(FALSE) ELSE None,
                  strict_contains  |-> IF relation.strict_contains THEN Some(FALSE) ELSE None,
                  contained        |-> IF relation.contained THEN Some(FALSE) ELSE None,
                  strict_contained |-> IF relation.strict_contained THEN Some(FALSE) ELSE None,
                  intersect        |-> IF relation.intersect THEN Some(FALSE) ELSE None,
                  disjoint         |-> IF relation.disjoint THEN Some(TRUE) ELSE None]

\* an empty line in front of a polygon whose bounding box holds the origin,
\* asked for intersect alone with early exit
C22_WitnessEmpty ==
    /\ ShortCircuit
    /\ lhs.kind = "Line" /\ OperandIsEmpty(lhs)
    /\ rhs.kind = "MultiPolygons" /\ ~OperandIsEmpty(rhs)
    /\ ~BoundingBox_disjoint(lhs.value.bounding_box, rhs.value.bounding_box)
    /\ relation = query("intersect")
    /\ output.intersect = Some(FALSE) /\ output.disjoint = None

C22_Witness ==
    /\ ShortCircuit
    /\ ~OperandIsEmpty(lhs) /\ ~OperandIsEmpty(rhs)
    /\ lhs.kind = "MultiLines" /\ rhs.kind = "MultiPolygons"
    /\ Len(rhs.value.offsets) = 2
    /\ relation = InputRelation_all
    /\ output.disjoint = Some(TRUE) /\ output.intersect = Some(FALSE)

\* ============================================= output algebra specification
\* The accumulation of the relation loops: an output that starts as
\* relation.to_false() and is or-ed with outputs of any shape, then read
\* with any_relation().
\* the outputs the relations build for a request: all false, all true, and
\* all false but one flag
OutputRelations ==
    UNION {{to_false(r), to_true(r),
            make_contains_if_set(to_false(r)),
            make_strict_contains_if_set(to_false(r)),
            make_contained_if_set(to_false(r)),
            make_strict_contained_if_set(to_false(r)),
            make_intersect_if_set(to_false(r)),
            make_disjoint_if_set(to_false(r))} : r \in Requests}

InitAlgebra ==
    /\ geometry = None
    /\ writer = None
    /\ view = None
    /\ lhs = None
    /\ rhs = None
    /\ relation \in Requests
    /\ output = to_false(relation)
    /\ pc = "ready"

\* output |= other: lhs keeps the output as it was before
BitOrAssign ==
    /\ pc \in {"ready", "or"}
    /\ \E other \in OutputRelations :
         /\ rhs' = other
         /\ output' = bitor(output, other)
    /\ lhs' = output
    /\ pc' = "or"
    /\ UNCHANGED <<geometry, writer, view, relation>>

AnyRelation ==
    /\ pc = "or"
    /\ view' = Some(any_relation(output))
    /\ pc' = "any"
    /\ UNCHANGED <<geometry, writer, lhs, rhs, relation, output>>

NextAlgebra ==
    \/ BitOrAssign
    \/ AnyRelation

SpecAlgebra == InitAlgebra /\ [][NextAlgebra]_vars

\* --------------------------------------------------- output algebra claims
\* C23: each flag of a | b is unset if it is unset in a, and otherwise is
\* a's flag or b's flag, an unset flag of b being read as false; so that
\* under |= a true flag stays true and the set flags stay the same, those
\* of the request the accumulation started from.
C23_BitOr ==
    pc \in {"or", "any"} =>
        \A flag \in Flags :
            /\ lhs[flag] = None => output[flag] = None
            /\ lhs[flag] # None =>
                 output[flag] = Some(lhs[flag] = Some(TRUE) \/ rhs[flag] = Some(TRUE))
            /\ lhs[flag] = Some(TRUE) => output[flag] = Some(TRUE)
            /\ (output[flag] # None) = (lhs[flag] # None)
            /\ (output[flag] # None) = relation[flag]

\* a false flag turned true by the operand, next to a true flag that an
\* operand with the flag false leaves true, and to an unset flag that an
\* operand with the flag set leaves unset
C23_Witness ==
    /\ pc = "or"
    /\ lhs.contains = Some(FALSE) /\ rhs.contains = Some(TRUE)
    /\ output.contains = Some(TRUE)
    /\ lhs.intersect = Some(TRUE) /\ rhs.intersect = Some(FALSE)
    /\ output.intersect = Some(TRUE)
    /\ lhs.strict_contains = None /\ rhs.strict_contains = Some(FALSE)
    /\ output.strict_contains = None

\* C24: any_relation() is true exactly when one of contains,
\* strict_contains, contained, strict_contained and intersect is true,
\* whatever the disjoint flag.
C24_AnyRelation ==
    pc = "any" =>
        view = Some(\E flag \in Flags \ {"disjoint"} : output[flag] = Some(TRUE))

\* C25: for every pair and every request, a flag of the output is set
\* exactly when the request asks for it.
C25_SetIffRequested ==
    pc = "done" => \A flag \in Flags : (output[flag] # None) = relation[flag]

\* C26: when the six flags are requested without early exit, disjoint is
\* true exactly when none of the five others is true.
C26_DisjointIffNoOther ==
    (pc = "done" /\ \A flag \in Flags : relation[flag]) /\ ~relation.early_exit =>
        (output.disjoint = Some(TRUE))
            = ~\E flag \in Flags \ {"disjoint"} : output[flag] = Some(TRUE)

\* C27: every flag that is true in the answer to a request with early exit
\* is true in the answer to the same request without early exit; and when
\* the answer with early exit has disjoint = true the two answers are equal.
C27_EarlyExitLosesOnly ==
    (pc = "done" /\ relation.early_exit) =>
        LET exhaustive == relation_of(lhs, rhs, [relation EXCEPT !.early_exit = FALSE])
        IN  /\ \A flag \in Flags :
                 output[flag] = Some(TRUE) => exhaustive[flag] = Some(TRUE)
            /\ output.disjoint = Some(TRUE) => exhaustive = output

\* a multi polygon that contains a polygon, asked for contains and
\* strict_contains only
C25_Witness ==
    /\ pc = "done"
    /\ relation = [InputRelation_default EXCEPT !.contains = TRUE,
                                                !.strict_contains = TRUE]
    /\ lhs.kind = "MultiPolygons" /\ rhs.kind = "Polygon"
    /\ output.contains = Some(TRUE) /\ output.strict_contains # None
    /\ output.intersect = None /\ output.disjoint = None

\* a multi polygon and a line, multi line, polygon or multi polygon that the
\* loop over the members finds without any relation
C26_Witness ==
    /\ pc = "done" /\ relation = InputRelation_all
    /\ lhs.kind = "MultiPolygons" /\ rhs.kind \in Composite
    /\ ~ShortCircuit
    /\ output.disjoint = Some(TRUE)
    /\ \A flag \in Flags \ {"disjoint"} : output[flag] = Some(FALSE)

\* a multi polygon whose first polygon contains the polygon, so that the
\* loop stops, and whose second one intersects it
C27_Witness ==
    /\ pc = "done" /\ relation = InputRelation_any
    /\ lhs.kind = "MultiPolygons" /\ rhs.kind = "Polygon"
    /\ output.contains = Some(TRUE) /\ output.intersect = Some(FALSE)
    /\ relation_of(lhs, rhs, InputRelation_all).intersect = Some(TRUE)

\* ------------------------------------------------------- alignment claims
Aligned(position) == position % 8 = 0

\* the offsets of a multi line or multi polygon written at position at,
\* read from the table that follows the bounding box and the count
StoredOffsets(at) ==
    LET n == u32_from_ne_bytes(slice(writer, at + BOUNDING_BOX_SIZE_IN_BYTES,
                                     at + BOUNDING_BOX_SIZE_IN_BYTES + 4))
        table == at + BOUNDING_BOX_SIZE_IN_BYTES + 4
    IN  [i \in 1..n |->
            u32_from_ne_bytes(slice(writer, table + 4 * (i - 1), table + 4 * i))]

\* A multi line or multi polygon that ends at position end and whose
\* members take size bytes: the bounding box at its start, the members from
\* end - size on, each one at its stored offset with its bounding box first
\* and its coordinates after it.
MultiAligned(at, end, size) ==
    LET start == end - size
        offsets == StoredOffsets(at)
    IN  /\ Aligned(at)
        /\ Aligned(start)
        /\ \A i \in DOMAIN offsets :
              /\ Aligned(offsets[i])
              /\ Aligned(start + offsets[i])
              /\ Aligned(start + offsets[i] + BOUNDING_BOX_SIZE_IN_BYTES)

\* C28: in what an encoder writes from position 0, every bounding box,
\* every sequence of coordinates, every member of a multi line or multi
\* polygon and each of the three parts of a collection starts at a multiple
\* of 8, every stored offset is a multiple of 8, and so is the length
\* written.
C28_Alignment ==
    pc \in {"written", "decoded"} =>
        /\ Aligned(Len(writer))
        /\ geometry.kind = "Point" => Aligned(8)
        /\ geometry.kind \in {"MultiPoint", "LineString", "Polygon"} =>
              Aligned(8) /\ Aligned(8 + BOUNDING_BOX_SIZE_IN_BYTES)
        /\ geometry.kind \in {"MultiLineString", "MultiPolygon"} =>
              MultiAligned(8, Len(writer), Len(PayloadBefore(Len(Members) + 1)))
        /\ geometry.kind = "GeometryCollection" =>
              LET base == BOUNDING_BOX_SIZE_IN_BYTES + 8
                  o1 == u32_from_ne_bytes(slice(writer, BOUNDING_BOX_SIZE_IN_BYTES,
                                                BOUNDING_BOX_SIZE_IN_BYTES + 4))
                  o2 == u32_from_ne_bytes(slice(writer, BOUNDING_BOX_SIZE_IN_BYTES + 4,
                                                BOUNDING_BOX_SIZE_IN_BYTES + 8))
              IN  /\ Aligned(o1) /\ Aligned(o2)
                  /\ Aligned(base) /\ Aligned(base + o1) /\ Aligned(base + o2)
                  /\ Aligned(base + BOUNDING_BOX_SIZE_IN_BYTES)
                  /\ MultiAligned(base + o1, base + o2,
                        Len(flat_map(Bucket(Atoms(geometry), "Line"), 1))
                          * COORD_SIZE_IN_BYTES
                        + Len(Bucket(Atoms(geometry), "Line"))
                          * BOUNDING_BOX_SIZE_IN_BYTES)
                  /\ MultiAligned(base + o2, Len(writer),
                        Len(flat_map(Bucket(Atoms(geometry), "Polygon"), 1))
                          * COORD_SIZE_IN_BYTES
                        + Len(Bucket(Atoms(geometry), "Polygon"))
                          * BOUNDING_BOX_SIZE_IN_BYTES)

\* a collection with a point and two lines, the second line away from the
\* start of the lines, behind the padding of an even count
C28_Witness ==
    /\ pc = "decoded" /\ geometry.kind = "GeometryCollection"
    /\ ZultiPoints_len(view.value.points) > 0
    /\ ZultiLines_len(view.value.lines) = 2
    /\ view.value.lines.offsets[2] > 0

\* ------------------------------------------------- ring direction claims
\* a closed ring of four corners whose sides are horizontal and vertical in
\* turn, in one direction or the other, from any corner
IsRectangleRing(ring) ==
    /\ Len(ring) = 5
    /\ ring[1] = ring[5]
    /\ ring[1] # ring[3] /\ ring[2] # ring[4]
    /\ \/ /\ ring[1][2] = ring[2][2] /\ ring[2][1] = ring[3][1]
          /\ ring[3][2] = ring[4][2] /\ ring[4][1] = ring[1][1]
       \/ /\ ring[1][1] = ring[2][1] /\ ring[2][2] = ring[3][2]
          /\ ring[3][1] = ring[4][1] /\ ring[4][2] = ring[1][2]
    /\ ring[1][1] # ring[3][1] /\ ring[1][2] # ring[3][2]

\* twice the signed area of the ring: positive when counter-clockwise
RECURSIVE SignedArea(_, _)
SignedArea(ring, i) ==
    IF i >= Len(ring) THEN 0
    ELSE ring[i][1] * ring[i + 1][2] - ring[i + 1][1] * ring[i][2]
           + SignedArea(ring, i + 1)

InsideRectangle(ring, p) ==
    /\ f64_min(ring[1][1], ring[3][1]) < p[1] /\ p[1] < f64_max(ring[1][1], ring[3][1])
    /\ f64_min(ring[1][2], ring[3][2]) < p[2] /\ p[2] < f64_max(ring[1][2], ring[3][2])

OutsideRectangle(ring, p) ==
    \/ p[1] < f64_min(ring[1][1], ring[3][1]) \/ p[1] > f64_max(ring[1][1], ring[3][1])
    \/ p[2] < f64_min(ring[1][2], ring[3][2]) \/ p[2] > f64_max(ring[1][2], ring[3][2])

\* C29: for every rectangle ring, in the clockwise and in the
\* counter-clockwise direction, the polygon reports Contains for every
\* coordinate strictly inside and Disjoint for every coordinate strictly
\* outside.
C29_RingDirection ==
    (pc = "done" /\ IsRectangleRing(lhs.coords)) =>
        /\ InsideRectangle(lhs.coords, rhs) => output = "Contains"
        /\ OutsideRectangle(lhs.coords, rhs) => output = "Disjoint"


\* ------------------------------------------------ segment direction claims
\* the cross product of the direction of a with the direction of b
DirectionCross(a, b) ==
    (a.end[1] - a.start[1]) * (b.end[2] - b.start[2])
      - (a.end[2] - a.start[2]) * (b.end[1] - b.start[1])

Reversed(segment) == [start |-> segment.end, end |-> segment.start]

====
